---- MODULE Spec2Model ----
(***************************************************************************)
(* Model of the libhtp-rs connection parser: the inbound (request) state   *)
(* machine of src/request.rs and the outbound (response) state machine of  *)
(* src/htp_response.rs, driven by a caller that feeds both directions in   *)
(* chunks of arbitrary size and may close the connection at any time.      *)
(*                                                                         *)
(* Bytes are one-character strings; byte strings are sequences of them.    *)
(***************************************************************************)
EXTENDS Integers, Sequences, FiniteSets, TLC

\* ------------------------------------------------------------------------
\* Bounds of the model
\* ------------------------------------------------------------------------

\* Largest number of bytes the caller hands over in one data call, unless
\* it hands over everything that is left.
MaxChunk == 2

\* cfg.field_limit, the configured cap on buffered line/header bytes.
FieldLimit == 28

\* ------------------------------------------------------------------------
\* Byte strings
\* ------------------------------------------------------------------------

\* With(v, F) is F(v): it gives the value v a name inside F.
With(v, F(_)) == F(v)

LF == "\n"
CR == "\r"
SP == " "
HT == "\t"
NUL == "NUL"

\* Option<Bstr>::None / a NULL buffer pointer.
None == <<"None">>

Take(s, n) == SubSeq(s, 1, n)
Drop(s, n) == SubSeq(s, n + 1, Len(s))

Min(a, b) == IF a < b THEN a ELSE b

\* Index of the first byte of s that is in S, or 0.
FirstIn(s, S) ==
  IF \E i \in 1..Len(s) : s[i] \in S
  THEN CHOOSE i \in 1..Len(s) : s[i] \in S /\ \A j \in 1..(i - 1) : s[j] \notin S
  ELSE 0

\* Index of the first byte of s that is not in S, or Len(s) + 1.
FirstNotIn(s, S) ==
  IF \E i \in 1..Len(s) : s[i] \notin S
  THEN CHOOSE i \in 1..Len(s) : s[i] \notin S /\ \A j \in 1..(i - 1) : s[j] \in S
  ELSE Len(s) + 1

UpperCase == <<"A","B","C","D","E","F","G","H","I","J","K","L","M",
               "N","O","P","Q","R","S","T","U","V","W","X","Y","Z">>
LowerCase == <<"a","b","c","d","e","f","g","h","i","j","k","l","m",
               "n","o","p","q","r","s","t","u","v","w","x","y","z">>

ToLower(c) ==
  IF \E i \in 1..26 : UpperCase[i] = c
  THEN LowerCase[CHOOSE i \in 1..26 : UpperCase[i] = c]
  ELSE c

LowerStr(s) == [i \in 1..Len(s) |-> ToLower(s[i])]

EqNoCase(a, b) == Len(a) = Len(b) /\ LowerStr(a) = LowerStr(b)

HexDigits == <<"0","1","2","3","4","5","6","7","8","9","a","b","c","d","e","f">>

IsHex(c) == \E i \in 1..16 : HexDigits[i] = ToLower(c)
HexVal(c) == (CHOOSE i \in 1..16 : HexDigits[i] = ToLower(c)) - 1
IsDigit(c) == \E i \in 1..10 : HexDigits[i] = c

RECURSIVE NumVal(_, _)
NumVal(s, base) ==
  IF s = <<>> THEN 0
  ELSE NumVal(Take(s, Len(s) - 1), base) * base + HexVal(s[Len(s)])

\* util.rs is_space: space, form feed, LF, CR, tab (and vertical tab).
Space == {SP, "\f", LF, CR, HT}
is_space(c) == c \in Space

\* util.rs take_is_space / take_not_is_space: split off the longest prefix
\* of (non-)whitespace.
take_is_space(s) ==
  LET n == FirstNotIn(s, Space) - 1 IN [taken |-> Take(s, n), rest |-> Drop(s, n)]

take_not_is_space(s) ==
  LET i == FirstIn(s, Space)
      n == IF i = 0 THEN Len(s) ELSE i - 1
  IN [taken |-> Take(s, n), rest |-> Drop(s, n)]

\* util.rs take_till_lf: the line up to and including the first LF.
take_till_lf(s) ==
  LET i == FirstIn(s, {LF})
  IN [ok |-> i > 0, line |-> Take(s, i), rest |-> Drop(s, i)]

\* util.rs take_till_lf_null: as take_till_lf, also stopping at a NUL.
take_till_lf_null(s) ==
  LET i == FirstIn(s, {LF, NUL})
  IN [ok |-> i > 0, line |-> Take(s, i), rest |-> Drop(s, i)]

\* util.rs chomp: remove every trailing CR and LF.
RECURSIVE chomp(_)
chomp(s) ==
  IF s # <<>> /\ s[Len(s)] \in {CR, LF} THEN chomp(Take(s, Len(s) - 1)) ELSE s

is_line_empty(s) == s \in {<<CR>>, <<LF>>, <<CR, LF>>}

\* util.rs is_line_terminator for the APACHE_2 personality.
is_line_terminator(s, next_no_lf) ==
  \/ is_line_empty(s)
  \/ (Len(s) = 2 /\ is_space(s[1]) /\ s[2] = LF /\ next_no_lf)

is_line_ignorable(s) == is_line_terminator(s, FALSE)

is_folding_char(c) == c \in {SP, HT, NUL}
is_line_folded(s) == s # <<>> /\ is_folding_char(s[1])

\* ------------------------------------------------------------------------
\* Parsers
\* ------------------------------------------------------------------------

GET == <<"G","E","T">>
HEAD == <<"H","E","A","D">>
PUT == <<"P","U","T">>
POST == <<"P","O","S","T">>
CONNECT == <<"C","O","N","N","E","C","T">>

\* util.rs convert_to_method: exact, case-sensitive lookup in the method
\* table of request.rs; anything else is UNKNOWN.
convert_to_method(m) ==
  CASE m = GET -> "GET"
    [] m = HEAD -> "HEAD"
    [] m = PUT -> "PUT"
    [] m = POST -> "POST"
    [] m = CONNECT -> "CONNECT"
    [] OTHER -> "UNKNOWN"

\* Result of the chunk length parser for an empty (all whitespace) line.
EmptyChunkLine == -1004

\* htp_parse_chunked_length: skip leading whitespace, read hex digits and
\* ignore what follows them. EmptyChunkLine for an all-whitespace line, -1
\* when no digit is found.
parse_chunked_length(data) ==
  LET d == Drop(data, FirstNotIn(data, Space) - 1)
      n == FirstNotIn(d, {c \in {d[i] : i \in 1..Len(d)} : IsHex(c)}) - 1
  IN IF d = <<>> THEN EmptyChunkLine
     ELSE IF n = 0 THEN -1
     ELSE NumVal(Take(d, n), 16)

\* parse_content_length: the first run of decimal digits, or -1.
parse_content_length(data) ==
  LET digits == {c \in {data[i] : i \in 1..Len(data)} : IsDigit(c)}
      i == FirstIn(data, digits)
      d == Drop(data, i - 1)
      n == FirstNotIn(d, digits) - 1
  IN IF i = 0 THEN -1 ELSE NumVal(Take(d, n), 10)

\* ------------------------------------------------------------------------
\* Transactions
\* ------------------------------------------------------------------------

HTP_REQUEST_NOT_STARTED == 0
HTP_REQUEST_LINE == 1
HTP_REQUEST_HEADERS == 2
HTP_REQUEST_BODY == 3
HTP_REQUEST_TRAILER == 4
HTP_REQUEST_COMPLETE == 5

HTP_RESPONSE_NOT_STARTED == 0
HTP_RESPONSE_LINE == 1
HTP_RESPONSE_HEADERS == 2
HTP_RESPONSE_BODY == 3
HTP_RESPONSE_TRAILER == 4
HTP_RESPONSE_COMPLETE == 5

\* A freshly created transaction.
NewTx ==
  [ request_method_number |-> "UNKNOWN",
    request_progress |-> HTP_REQUEST_NOT_STARTED,
    is_protocol_0_9 |-> FALSE,
    request_ignored_lines |-> 0,
    request_headers |-> <<>>,
    req_header_repetitions |-> 0,
    request_transfer_coding |-> "UNKNOWN",
    request_content_length |-> -1,
    request_entity_len |-> 0,
    flags |-> {},
    response_progress |-> HTP_RESPONSE_NOT_STARTED,
    response_ignored_lines |-> 0,
    response_protocol_number |-> -2,
    response_status_number |-> 0,
    response_headers |-> <<>>,
    res_header_repetitions |-> 0,
    response_transfer_coding |-> "UNKNOWN",
    response_content_length |-> -1,
    seen_100continue |-> 0 ]

\* The result of a state handler: the parser afterwards and the status code.
R(c, rc) == [c |-> c, rc |-> rc]

\* The names of the hooks of each direction.
RequestHooks ==
  {"request_start", "request_line", "request_headers", "request_body_data",
   "request_trailer", "request_complete"}
ResponseHooks ==
  {"response_start", "response_line", "response_headers", "response_body_data",
   "response_trailer", "response_complete"}
\* The callbacks that end a request, a response and a transaction; the
\* order in which they were called is kept across the three lists.
CompletionHooks == {"request_complete", "response_complete", "transaction_complete"}
\* What the first callback of the hook called name returns: the
\* configuration names at most one hook whose first callback does not
\* return OK.
HookRc(c, name) == IF c.cfg.hook = name THEN c.cfg.rc ELSE "OK"

\* Run the callbacks of one hook for transaction tx, in the order of their
\* registration. Two callbacks are registered on every hook; the calls of
\* the first are kept in the list of its direction, those of the second in
\* the list of its direction in hooks.second. A callback that does not return OK ends the run, and
\* HookRc is what the run returns.
RunHook(c, name, tx) ==
  LET log == IF name \in RequestHooks THEN "request"
             ELSE IF name \in ResponseHooks THEN "response" ELSE "transaction"
  IN [c EXCEPT !.hooks[log] = Append(@, <<name, tx>>),
               !.hooks.completion = IF name \in CompletionHooks
                                    THEN Append(@, <<name, tx>>) ELSE @,
               !.hooks.second[log] = IF HookRc(c, name) = "OK"
                                     THEN Append(@, <<name, tx>>) ELSE @]

\* No data receiver hook is set.
NoReceiver == "none"

\* Run the callbacks of a raw data hook on the inbound transaction. A
\* callback is registered on a raw data hook only when the configuration
\* names it.
RunReceiverHook(c, name) ==
  IF c.cfg.hook # name THEN c
  ELSE [c EXCEPT !.hooks.request = Append(@, <<name, c.in_tx>>)]

\* Send the bytes of the chunk that the data receiver has not seen yet to
\* the data receiver hook, if there is one.
req_receiver_send_data(c, is_last) ==
  IF c.in_data_receiver_hook = NoReceiver THEN R(c, "OK")
  ELSE LET rc == HookRc(c, c.in_data_receiver_hook)
           c1 == RunReceiverHook(c, c.in_data_receiver_hook)
       IN IF rc # "OK" THEN R(c1, rc)
          ELSE R([c1 EXCEPT !.in_current_receiver_offset = c.in_pos], "OK")

\* Send what is outstanding to the data receiver hook and remove the hook.
req_receiver_finalize_clear(c) ==
  IF c.in_data_receiver_hook = NoReceiver THEN R(c, "OK")
  ELSE LET r == req_receiver_send_data(c, TRUE)
       IN R([r.c EXCEPT !.in_data_receiver_hook = NoReceiver], r.rc)

\* Make hook the data receiver hook; what finalizing the previous one
\* returns is ignored.
req_receiver_set(c, hook) ==
  [req_receiver_finalize_clear(c).c EXCEPT !.in_data_receiver_hook = hook,
                                           !.in_current_receiver_offset = c.in_pos]

\* connection_parser.rs create_tx: append a transaction to the connection;
\* a request that starts before earlier ones were answered is pipelined.
create_tx(c) ==
  [c EXCEPT !.txs = Append(@, NewTx),
            !.conn_flags = IF Len(c.txs) > c.out_next_tx_index
                           THEN @ \cup {"PIPELINED"} ELSE @]

\* Index of the header called name (case-insensitively), or 0.
HeaderIdx(hs, name) ==
  IF \E i \in 1..Len(hs) : EqNoCase(hs[i].name, name)
  THEN CHOOSE i \in 1..Len(hs) : EqNoCase(hs[i].name, name)
  ELSE 0

ContentLengthName == <<"C","o","n","t","e","n","t","-","L","e","n","g","t","h">>
TransferEncodingName ==
  <<"T","r","a","n","s","f","e","r","-","E","n","c","o","d","i","n","g">>
Chunked == <<"c","h","u","n","k","e","d">>

\* One header line split at the first colon: whitespace before the colon
\* and linear whitespace after it are dropped; without a colon the name is
\* empty and the line is the value.
ParseHeaderLine(line) ==
  LET l == chomp(line)
      i == FirstIn(l, {":"})
      rawname == Take(l, i - 1)
      ne == IF \E k \in 1..Len(rawname) : rawname[k] \notin Space
            THEN CHOOSE k \in 1..Len(rawname) :
                   rawname[k] \notin Space /\ \A j \in (k + 1)..Len(rawname) : rawname[j] \in Space
            ELSE 0
      v == Drop(l, i)
  IN IF i = 0 THEN [name |-> <<>>, value |-> l, repeated |-> FALSE]
     ELSE [name |-> Take(rawname, ne),
           value |-> Drop(v, FirstNotIn(v, {SP, HT}) - 1),
           repeated |-> FALSE]

\* AddHeader without the limit on repetitions.
AddHeader_unlimited(hs, reps, h) ==
  LET i == HeaderIdx(hs, h.name) IN
  IF i = 0 THEN [hs |-> Append(hs, h), reps |-> reps]
  ELSE LET r == IF hs[i].repeated /\ reps < 64 THEN reps + 1 ELSE reps
           v == IF EqNoCase(h.name, ContentLengthName) THEN hs[i].value
                ELSE hs[i].value \o <<",", SP>> \o h.value
       IN [hs |-> [hs EXCEPT ![i].repeated = TRUE, ![i].value = v], reps |-> r]

\* Add header h to a header table, merging a repeated name into the
\* existing entry. Returns the table and the repetition counter.
AddHeader(hs, reps, h) ==
  LET i == HeaderIdx(hs, h.name) IN
  IF i = 0 THEN [hs |-> Append(hs, h), reps |-> reps]
  ELSE IF hs[i].repeated /\ reps >= 64 THEN [hs |-> hs, reps |-> reps]
  ELSE LET r == IF hs[i].repeated THEN reps + 1 ELSE reps
           v == IF EqNoCase(h.name, ContentLengthName) THEN hs[i].value
                ELSE hs[i].value \o <<",", SP>> \o h.value
       IN [hs |-> [hs EXCEPT ![i].repeated = TRUE, ![i].value = v], reps |-> r]

\* request_generic.rs: parse one request header line and store it in the
\* inbound transaction.
process_request_header(c, line) ==
  LET t == c.txs[c.in_tx]
      a == AddHeader(t.request_headers, t.req_header_repetitions, ParseHeaderLine(line))
  IN [c EXCEPT !.txs[c.in_tx].request_headers = a.hs,
               !.txs[c.in_tx].req_header_repetitions = a.reps]

\* request_generic.rs parse_request_line_generic_ex: method, then URI, then
\* protocol; a line without a protocol is an HTTP/0.9 request.
parse_request_line(c, request_line) ==
  LET n == FirstIn(request_line, {NUL})
      data == IF n = 0 THEN request_line ELSE Take(request_line, n - 1)
      m == take_not_is_space(take_is_space(data).rest)
      remaining == take_is_space(m.rest).rest
      sp == FirstIn(remaining, {SP})
      uri1 == IF sp = 0 THEN remaining ELSE Take(remaining, sp - 1)
      retry == Len(uri1) = Len(remaining) /\ \E k \in 1..Len(uri1) : is_space(uri1[k])
      uri == IF retry THEN take_not_is_space(remaining).taken ELSE uri1
      protocol == take_is_space(Drop(remaining, Len(uri))).rest
  IN [c EXCEPT !.txs[c.in_tx].request_method_number = convert_to_method(m.taken),
               !.txs[c.in_tx].is_protocol_0_9 = (remaining = <<>> \/ protocol = <<>>)]

\* finalize, were one complete half enough.
finalize_either(c, tx) ==
  IF \/ c.txs[tx].request_progress = HTP_REQUEST_COMPLETE
     \/ c.txs[tx].response_progress = HTP_RESPONSE_COMPLETE
  THEN RunHook(c, "transaction_complete", tx)
  ELSE c

\* transaction.rs: completion of a transaction is announced once both of
\* its halves are complete. What the callbacks return is not looked at.
finalize(c, tx) ==
  IF /\ c.txs[tx].request_progress = HTP_REQUEST_COMPLETE
     /\ c.txs[tx].response_progress = HTP_RESPONSE_COMPLETE
  THEN RunHook(c, "transaction_complete", tx)
  ELSE c

\* transaction.rs state_request_start: the request line is next.
state_request_start(c) ==
  LET c1 == [c EXCEPT !.txs[c.in_tx].request_progress = HTP_REQUEST_LINE,
                      !.in_state = "LINE"]
  IN R(RunHook(c1, "request_start", c.in_tx), HookRc(c, "request_start"))

\* transaction.rs state_request_line: the request line has been parsed.
state_request_line(c) ==
  R(RunHook([c EXCEPT !.in_state = "PROTOCOL"], "request_line", c.in_tx),
    HookRc(c, "request_line"))

\* transaction.rs process_request_headers: chunked coding wins over a
\* content length, and both together are flagged.
process_request_headers(c) ==
  LET t == c.txs[c.in_tx]
      te == HeaderIdx(t.request_headers, TransferEncodingName)
      cl == HeaderIdx(t.request_headers, ContentLengthName)
      len == IF cl = 0 THEN -1 ELSE parse_content_length(t.request_headers[cl].value)
  IN IF te # 0 /\ EqNoCase(t.request_headers[te].value, Chunked)
     THEN R([c EXCEPT !.txs[c.in_tx].request_transfer_coding = "CHUNKED",
                      !.txs[c.in_tx].flags =
                         IF cl # 0 THEN @ \cup {"REQUEST_SMUGGLING"} ELSE @], "OK")
     ELSE IF cl # 0
     THEN IF len < 0 THEN R(c, "ERROR")
          ELSE R([c EXCEPT !.txs[c.in_tx].request_transfer_coding = "IDENTITY",
                           !.txs[c.in_tx].request_content_length = len], "OK")
     ELSE R([c EXCEPT !.txs[c.in_tx].request_transfer_coding = "NO_BODY"], "OK")

\* transaction.rs state_request_headers: the raw data of the headers is
\* finalized first; then, after the headers, work out the body and go on to
\* the CONNECT check; after the trailer, finalize.
state_request_headers(c) ==
  LET f == req_receiver_finalize_clear(c) IN
  IF f.rc # "OK" THEN f
  ELSE IF c.txs[c.in_tx].request_progress > HTP_REQUEST_HEADERS
  THEN R(RunHook([f.c EXCEPT !.in_state = "FINALIZE"], "request_trailer", c.in_tx),
         HookRc(c, "request_trailer"))
  ELSE LET p == process_request_headers(f.c) IN
       IF p.rc # "OK" THEN p
       ELSE R(RunHook([p.c EXCEPT !.in_state = "CONNECT_CHECK"],
                      "request_headers", c.in_tx), HookRc(c, "request_headers"))

\* transaction.rs state_request_complete: the request is done; the inbound
\* side gives up its transaction and goes idle.
state_request_complete(c) ==
  IF c.in_tx = 0 THEN R(c, "ERROR")
  ELSE
  LET tx == c.in_tx
      c1 == IF c.txs[tx].request_progress # HTP_REQUEST_COMPLETE
            THEN RunHook([c EXCEPT !.txs[tx].request_progress = HTP_REQUEST_COMPLETE],
                         "request_complete", tx)
            ELSE c
      c2 == [c1 EXCEPT !.in_state = IF c.txs[tx].is_protocol_0_9
                                    THEN "IGNORE_DATA_AFTER_HTTP_0_9" ELSE "IDLE"]
  IN IF c.txs[tx].request_progress # HTP_REQUEST_COMPLETE
        /\ HookRc(c, "request_complete") # "OK"
     THEN R(c1, HookRc(c, "request_complete"))
     ELSE R([finalize(c2, tx) EXCEPT !.in_tx = 0], "OK")

\* transaction.rs req_process_body_data_ex: hand request body bytes to the
\* body data callbacks.
req_process_body_data_ex(c, data) ==
  IF c.in_tx = 0 THEN R(c, "ERROR")
  ELSE IF data = <<>> THEN R(c, "OK")
  ELSE R(RunHook([c EXCEPT !.txs[c.in_tx].request_entity_len = @ + Len(data)],
                 "request_body_data", c.in_tx), HookRc(c, "request_body_data"))

\* ------------------------------------------------------------------------
\* Inbound state machine (src/request.rs)
\* ------------------------------------------------------------------------

\* Length of the current inbound chunk and the bytes after the read cursor.
in_curr_len(c) == Len(c.in_curr_data)
InRest(c) == Drop(c.in_curr_data, c.in_pos)
InSeek(c, n) == [c EXCEPT !.in_pos = @ + n]

\* TRUE when len more bytes may be buffered without exceeding the limit.
check_buffer_limit(c, len) ==
  \/ len = 0
  \/ /\ c.in_tx # 0
     /\ Len(c.in_buf) + len + (IF c.in_header = None THEN 0 ELSE Len(c.in_header))
          <= FieldLimit

\* The line is not complete in this chunk: keep what there is of it.
handle_absent_lf(c, data) ==
  LET c1 == [c EXCEPT !.in_pos = in_curr_len(c)] IN
  IF ~check_buffer_limit(c1, Len(data)) THEN R(c1, "ERROR")
  ELSE R([c1 EXCEPT !.in_buf = @ \o data], "DATA_BUFFER")

\* req_connect_check without the test of the method: a CONNECT is handled
\* like any other request.
req_connect_check_no_connect(c) == R([c EXCEPT !.in_state = "BODY_DETERMINE"], "OK")

req_connect_check(c) ==
  IF c.txs[c.in_tx].request_method_number = "CONNECT"
  THEN R([c EXCEPT !.in_state = "CONNECT_WAIT_RESPONSE", !.in_status = "DATA_OTHER"],
         "DATA_OTHER")
  ELSE R([c EXCEPT !.in_state = "BODY_DETERMINE"], "OK")

\* req_connect_probe_data without the test of the method: whatever follows
\* an accepted CONNECT is tunnelled.
req_connect_probe_data_no_method(c, line) ==
  IF ~take_till_lf_null(line).ok THEN handle_absent_lf(c, line)
  ELSE R([c EXCEPT !.in_status = "TUNNEL", !.out_status = "TUNNEL"], "OK")

req_connect_probe_data(c, line) ==
  LET t == take_till_lf_null(line) IN
  IF ~t.ok THEN handle_absent_lf(c, line)
  ELSE IF c.in_buf # <<>> /\ ~check_buffer_limit(c, Len(t.line)) THEN R(c, "ERROR")
  ELSE LET buffered == c.in_buf \o t.line
           method == take_not_is_space(take_is_space(buffered).rest).taken
       IN IF convert_to_method(method) = "UNKNOWN"
          THEN R([c EXCEPT !.in_status = "TUNNEL", !.out_status = "TUNNEL"], "OK")
          ELSE state_request_complete(c)

\* req_connect_wait_response that probes the bytes after the request
\* whatever the status of the response.
req_connect_wait_response_any_status(c) ==
  IF c.txs[c.in_tx].response_progress <= HTP_RESPONSE_LINE THEN R(c, "DATA_OTHER")
  ELSE R([c EXCEPT !.in_state = "CONNECT_PROBE_DATA"], "OK")

\* req_connect_wait_response without the wait: it goes by the status of a
\* response that may not have been read yet.
req_connect_wait_response_no_wait(c) ==
  IF c.txs[c.in_tx].response_status_number \in 200..299
  THEN R([c EXCEPT !.in_state = "CONNECT_PROBE_DATA"], "OK")
  ELSE R([c EXCEPT !.in_state = "FINALIZE"], "OK")

req_connect_wait_response(c) ==
  IF c.txs[c.in_tx].response_progress <= HTP_RESPONSE_LINE THEN R(c, "DATA_OTHER")
  ELSE IF c.txs[c.in_tx].response_status_number \in 200..299
  THEN R([c EXCEPT !.in_state = "CONNECT_PROBE_DATA"], "OK")
  ELSE R([c EXCEPT !.in_state = "FINALIZE"], "OK")

req_body_chunked_data_end(c, data) ==
  LET t == take_till_lf(data) IN
  IF t.ok THEN R([InSeek(c, Len(t.line)) EXCEPT !.in_state = "BODY_CHUNKED_LENGTH"], "OK")
  ELSE handle_absent_lf(c, data)

req_body_chunked_data(c, data) ==
  LET bytes_to_consume == Min(Len(data), c.in_chunked_length) IN
  IF bytes_to_consume = 0 THEN R(c, "DATA")
  ELSE LET p == req_process_body_data_ex(c, Take(data, bytes_to_consume)) IN
       IF p.rc # "OK" THEN p
       ELSE LET c1 == [InSeek(p.c, bytes_to_consume)
                         EXCEPT !.in_chunked_length = @ - bytes_to_consume]
            IN IF c1.in_chunked_length = 0
               THEN R([c1 EXCEPT !.in_state = "BODY_CHUNKED_DATA_END"], "OK")
               ELSE R(c1, "DATA")

\* A variant of req_body_chunked_length in which a chunk length that is no
\* number ends the body instead of failing.
req_body_chunked_length_lenient(c, data) ==
  LET t == take_till_lf(data) IN
  IF ~t.ok THEN handle_absent_lf(c, data)
  ELSE LET c1 == InSeek(c, Len(t.line)) IN
       IF c1.in_buf # <<>> /\ ~check_buffer_limit(c1, Len(t.line)) THEN R(c1, "ERROR")
       ELSE LET n == parse_chunked_length(c1.in_buf \o t.line)
                c2 == [c1 EXCEPT !.in_buf = <<>>,
                                 !.in_chunked_length = IF n >= 0 THEN n ELSE -1]
            IN IF c2.in_chunked_length > 0
               THEN R([c2 EXCEPT !.in_state = "BODY_CHUNKED_DATA"], "OK")
               ELSE R([c2 EXCEPT !.in_state = "HEADERS",
                                 !.txs[c.in_tx].request_progress = HTP_REQUEST_TRAILER], "OK")

\* A variant of req_body_chunked_length in which a chunk of length zero is
\* a chunk like any other.
req_body_chunked_length_no_end(c, data) ==
  LET t == take_till_lf(data) IN
  IF ~t.ok THEN handle_absent_lf(c, data)
  ELSE LET c1 == InSeek(c, Len(t.line)) IN
       IF c1.in_buf # <<>> /\ ~check_buffer_limit(c1, Len(t.line)) THEN R(c1, "ERROR")
       ELSE LET n == parse_chunked_length(c1.in_buf \o t.line)
                c2 == [c1 EXCEPT !.in_buf = <<>>,
                                 !.in_chunked_length = IF n >= 0 THEN n ELSE -1]
            IN IF c2.in_chunked_length >= 0
               THEN R([c2 EXCEPT !.in_state = "BODY_CHUNKED_DATA"], "OK")
               ELSE R(c2, "ERROR")

req_body_chunked_length(c, data) ==
  LET t == take_till_lf(data) IN
  IF ~t.ok THEN handle_absent_lf(c, data)
  ELSE LET c1 == InSeek(c, Len(t.line)) IN
       IF c1.in_buf # <<>> /\ ~check_buffer_limit(c1, Len(t.line)) THEN R(c1, "ERROR")
       ELSE LET n == parse_chunked_length(c1.in_buf \o t.line)
                c2 == [c1 EXCEPT !.in_buf = <<>>,
                                 !.in_chunked_length = IF n >= 0 THEN n ELSE -1]
            IN IF c2.in_chunked_length > 0
               THEN R([c2 EXCEPT !.in_state = "BODY_CHUNKED_DATA"], "OK")
               ELSE IF c2.in_chunked_length = 0
               THEN R([c2 EXCEPT !.in_state = "HEADERS",
                                 !.txs[c.in_tx].request_progress = HTP_REQUEST_TRAILER], "OK")
               ELSE R(c2, "ERROR")

\* A variant of req_body_identity that takes all the bytes of the chunk,
\* whatever is left of the content length.
req_body_identity_greedy(c, data) ==
  LET bytes_to_consume == Len(data) IN
  IF bytes_to_consume = 0 THEN R(c, "DATA")
  ELSE LET p == req_process_body_data_ex(c, Take(data, bytes_to_consume)) IN
       IF p.rc # "OK" THEN p
       ELSE LET c1 == [InSeek(p.c, bytes_to_consume)
                         EXCEPT !.in_body_data_left = @ - bytes_to_consume]
            IN IF c1.in_body_data_left = 0
               THEN R([c1 EXCEPT !.in_state = "FINALIZE"], "OK")
               ELSE R(c1, "DATA")

req_body_identity(c, data) ==
  LET bytes_to_consume == Min(Len(data), c.in_body_data_left) IN
  IF bytes_to_consume = 0 THEN R(c, "DATA")
  ELSE LET p == req_process_body_data_ex(c, Take(data, bytes_to_consume)) IN
       IF p.rc # "OK" THEN p
       ELSE LET c1 == [InSeek(p.c, bytes_to_consume)
                         EXCEPT !.in_body_data_left = @ - bytes_to_consume]
            IN IF c1.in_body_data_left = 0
               THEN R([c1 EXCEPT !.in_state = "FINALIZE"], "OK")
               ELSE R(c1, "DATA")

\* A variant of req_body_determine in which a chunked body is read as an
\* identity body of the declared content length.
req_body_determine_identity(c) ==
  LET t == c.txs[c.in_tx] IN
  IF t.request_transfer_coding \in {"CHUNKED", "IDENTITY"}
  THEN LET c1 == [c EXCEPT !.in_content_length = t.request_content_length,
                           !.in_body_data_left = t.request_content_length]
       IN IF t.request_content_length # 0
          THEN R([c1 EXCEPT !.in_state = "BODY_IDENTITY",
                            !.txs[c.in_tx].request_progress = HTP_REQUEST_BODY], "OK")
          ELSE R([c1 EXCEPT !.in_state = "FINALIZE"], "OK")
  ELSE IF t.request_transfer_coding = "NO_BODY"
  THEN R([c EXCEPT !.in_state = "FINALIZE"], "OK")
  ELSE R(c, "ERROR")

req_body_determine(c) ==
  LET t == c.txs[c.in_tx] IN
  CASE t.request_transfer_coding = "CHUNKED" ->
         R([c EXCEPT !.in_state = "BODY_CHUNKED_LENGTH",
                     !.txs[c.in_tx].request_progress = HTP_REQUEST_BODY], "OK")
    [] t.request_transfer_coding = "IDENTITY" ->
         LET c1 == [c EXCEPT !.in_content_length = t.request_content_length,
                             !.in_body_data_left = t.request_content_length]
         IN IF t.request_content_length # 0
            THEN R([c1 EXCEPT !.in_state = "BODY_IDENTITY",
                              !.txs[c.in_tx].request_progress = HTP_REQUEST_BODY], "OK")
            ELSE R([c1 EXCEPT !.in_state = "FINALIZE"], "OK")
    [] t.request_transfer_coding = "NO_BODY" -> R([c EXCEPT !.in_state = "FINALIZE"], "OK")
    [] OTHER -> R(c, "ERROR")

\* Parse the pending header line, if there is one.
TakeInHeader(c) ==
  IF c.in_header = None THEN c
  ELSE [process_request_header(c, c.in_header) EXCEPT !.in_header = None]

RECURSIVE req_headers(_, _)
req_headers(c, rest) ==
  IF c.in_status = "CLOSED"
  THEN state_request_headers(
         [TakeInHeader(c) EXCEPT !.in_buf = <<>>,
                                 !.txs[c.in_tx].request_progress = HTP_REQUEST_TRAILER])
  ELSE
  LET t == take_till_lf(rest) IN
  IF ~t.ok THEN handle_absent_lf(c, rest)
  ELSE
  LET c1 == InSeek(c, Len(t.line)) IN
  IF c1.in_buf # <<>> /\ ~check_buffer_limit(c1, Len(t.line)) THEN R(c1, "ERROR")
  ELSE
  LET data == c1.in_buf \o t.line
      c2 == [c1 EXCEPT !.in_buf = <<>>]
      chomped == chomp(data)
  IN IF is_line_terminator(data, FALSE) THEN state_request_headers(TakeInHeader(c2))
     ELSE IF ~is_line_folded(chomped)
     THEN LET c3 == TakeInHeader(c2) IN
          IF t.rest # <<>> /\ ~is_folding_char(t.rest[1])
          THEN req_headers(process_request_header(c3, chomped), t.rest)
          ELSE req_headers([c3 EXCEPT !.in_header = chomped], t.rest)
     ELSE IF c2.in_header = None
     THEN req_headers([c2 EXCEPT !.txs[c.in_tx].flags = @ \cup {"INVALID_FOLDING"},
                                 !.in_header = chomped], t.rest)
     ELSE req_headers([c2 EXCEPT !.in_header = @ \o chomped], t.rest)

req_protocol(c, data) ==
  IF ~c.txs[c.in_tx].is_protocol_0_9 \/ FirstIn(data, {":"}) # 0
  THEN R([c EXCEPT !.in_state = "HEADERS",
                   !.txs[c.in_tx].is_protocol_0_9 = FALSE,
                   !.txs[c.in_tx].request_progress = HTP_REQUEST_HEADERS], "OK")
  ELSE R([c EXCEPT !.in_state = "FINALIZE"], "OK")

req_line_complete(c, line) ==
  IF c.in_buf # <<>> /\ ~check_buffer_limit(c, Len(line)) THEN R(c, "ERROR")
  ELSE
  LET data == c.in_buf \o line
      c1 == [c EXCEPT !.in_buf = <<>>]
  IN IF data = <<>> THEN R(c1, "DATA")
     ELSE IF is_line_ignorable(data)
     THEN R([c1 EXCEPT !.txs[c.in_tx].request_ignored_lines = @ + 1], "OK")
     ELSE state_request_line(parse_request_line(c1, chomp(data)))

req_line(c, data) ==
  LET t == take_till_lf(data) IN
  IF t.ok THEN req_line_complete(InSeek(c, Len(t.line)), t.line)
  ELSE IF c.in_status = "CLOSED"
  THEN req_line_complete([c EXCEPT !.in_pos = in_curr_len(c)], data)
  ELSE handle_absent_lf(c, data)

\* FinalizeWork, were a line that starts with no known method the start of
\* the next request.
FinalizeWork_next_request(c, work) ==
  IF c.in_buf # <<>> /\ ~check_buffer_limit(c, Len(work)) THEN R(c, "ERROR")
  ELSE LET data == c.in_buf \o work
           c1 == [c EXCEPT !.in_buf = <<>>]
           method == take_not_is_space(take_is_space(data).rest).taken
  IN IF data = <<>> THEN state_request_complete(c1)
     ELSE IF method = <<>> THEN req_process_body_data_ex(c1, data)
     ELSE state_request_complete([c1 EXCEPT !.in_body_data_left = -1, !.in_buf = data,
                                            !.in_pos = IF @ < Len(data) THEN 0 ELSE @ - Len(data)])

\* The tail of req_finalize, once the bytes to look at are known.
FinalizeWork(c, work) ==
  IF c.in_buf # <<>> /\ ~check_buffer_limit(c, Len(work)) THEN R(c, "ERROR")
  ELSE
  LET data == c.in_buf \o work
      c1 == [c EXCEPT !.in_buf = <<>>]
      method == take_not_is_space(take_is_space(data).rest).taken
  IN IF data = <<>> THEN state_request_complete(c1)
     ELSE IF method = <<>> THEN req_process_body_data_ex(c1, data)
     ELSE IF convert_to_method(method) = "UNKNOWN"
     THEN req_process_body_data_ex(
            [c1 EXCEPT !.in_body_data_left = IF @ <= 0 THEN @ ELSE 1,
                       !.logs = IF c.in_body_data_left <= 0
                                THEN @ \cup {<<"REQUEST_BODY_UNEXPECTED", c.in_tx>>}
                                ELSE @], data)
     ELSE state_request_complete(
            [c1 EXCEPT !.in_body_data_left = -1,
                       !.in_buf = data,
                       !.in_pos = IF @ < Len(data) THEN 0 ELSE @ - Len(data)])

req_finalize(c, data) ==
  IF c.in_status = "CLOSED" THEN FinalizeWork(c, data)
  ELSE IF c.in_pos >= in_curr_len(c) THEN state_request_complete(c)
  ELSE IF c.in_curr_data[c.in_pos + 1] = LF THEN FinalizeWork(c, data)
  ELSE LET t == take_till_lf(data) IN
       IF t.ok THEN FinalizeWork(InSeek(c, Len(t.line)), t.line)
       ELSE handle_absent_lf(c, data)

req_ignore_data_after_http_0_9(c) ==
  R([c EXCEPT !.in_pos = in_curr_len(c),
              !.conn_flags = IF in_curr_len(c) - c.in_pos > 0
                             THEN @ \cup {"HTTP_0_9_EXTRA"} ELSE @], "DATA")

\* A variant of req_idle that starts a transaction whether or not a byte
\* is there to read.
req_idle_eager(c) ==
  LET c1 == create_tx(c)
  IN R(state_request_start([c1 EXCEPT !.in_tx = Len(c1.txs)]).c, "OK")

\* A variant of req_idle that starts the next request in the transaction of
\* the request before it, when there is one.
req_idle_reuse(c) ==
  IF c.in_pos >= in_curr_len(c) THEN R(c, "DATA")
  ELSE LET c1 == IF c.txs = << >> THEN create_tx(c) ELSE c
       IN R(state_request_start([c1 EXCEPT !.in_tx = Len(c1.txs)]).c, "OK")

req_idle(c) ==
  IF c.in_pos >= in_curr_len(c) THEN R(c, "DATA")
  ELSE LET c1 == create_tx(c)
       IN R(state_request_start([c1 EXCEPT !.in_tx = Len(c1.txs)]).c, "OK")

\* connection_parser.rs handle_in_state: run the handler of the current
\* inbound state on the unread part of the chunk.
handle_in_state(c) ==
  LET data == InRest(c) IN
  CASE c.in_state = "IDLE" -> req_idle(c)
    [] c.in_state = "IGNORE_DATA_AFTER_HTTP_0_9" -> req_ignore_data_after_http_0_9(c)
    [] c.in_state = "LINE" -> req_line(c, data)
    [] c.in_state = "PROTOCOL" -> req_protocol(c, data)
    [] c.in_state = "HEADERS" -> req_headers(c, data)
    [] c.in_state = "CONNECT_CHECK" -> req_connect_check(c)
    [] c.in_state = "CONNECT_WAIT_RESPONSE" -> req_connect_wait_response(c)
    [] c.in_state = "CONNECT_PROBE_DATA" -> req_connect_probe_data(c, data)
    [] c.in_state = "BODY_DETERMINE" -> req_body_determine(c)
    [] c.in_state = "BODY_CHUNKED_LENGTH" -> req_body_chunked_length(c, data)
    [] c.in_state = "BODY_CHUNKED_DATA" -> req_body_chunked_data(c, data)
    [] c.in_state = "BODY_CHUNKED_DATA_END" -> req_body_chunked_data_end(c, data)
    [] c.in_state = "BODY_IDENTITY" -> req_body_identity(c, data)
    [] c.in_state = "FINALIZE" -> req_finalize(c, data)
    [] OTHER -> R(c, "ERROR")

\* Note a change of inbound state: on entering HEADERS the data receiver
\* of the raw header or trailer data is set. in_trace keeps the states the
\* call has entered, each with the transaction it was entered for.
req_handle_state_change(c) ==
  IF c.in_state_previous = c.in_state THEN c
  ELSE LET p == IF c.in_state = "HEADERS" THEN c.txs[c.in_tx].request_progress ELSE 0
           c1 == IF c.in_state # "HEADERS" THEN c
                 ELSE IF p = HTP_REQUEST_HEADERS
                 THEN req_receiver_set(c, "request_header_data")
                 ELSE IF p = HTP_REQUEST_TRAILER
                 THEN req_receiver_set(c, "request_trailer_data")
                 ELSE c
       IN [c1 EXCEPT !.in_state_previous = c.in_state,
                     !.in_trace = Append(@, <<c.in_state, c.in_tx>>)]

\* The handler reported success and left the parser as it found it, apart
\* from the callbacks it ran and the count of the bytes it handed to them:
\* the loop of req_data runs it again on the same bytes, with the same
\* outcome, forever.
InSpins(c, d) ==
  /\ Len(d.txs) = Len(c.txs)
  /\ [d EXCEPT !.hooks = c.hooks,
               !.txs = [i \in 1..Len(c.txs) |->
                          [d.txs[i] EXCEPT !.request_entity_len =
                                              c.txs[i].request_entity_len]]] = c

\* The processing loop of req_data: run state handlers until one of them
\* asks for data, suspends, or fails. NORETURN stands for a loop that never
\* ends.
RECURSIVE ReqLoop(_)
ReqLoop(c) ==
  With(handle_in_state(c), LAMBDA h :
  CASE h.rc = "OK" ->
         IF h.c.in_status = "TUNNEL" THEN R(h.c, "TUNNEL")
         ELSE IF InSpins(c, h.c) THEN R(h.c, "NORETURN")
         ELSE ReqLoop(req_handle_state_change(h.c))
    [] h.rc \in {"DATA", "DATA_BUFFER"} ->
         R([req_receiver_send_data(h.c, FALSE).c EXCEPT !.in_status = "DATA"], "DATA")
    [] h.rc = "DATA_OTHER" ->
         IF h.c.in_pos >= in_curr_len(h.c)
         THEN R([h.c EXCEPT !.in_status = "DATA"], "DATA")
         ELSE R([h.c EXCEPT !.in_status = "DATA_OTHER"], "DATA_OTHER")
    [] h.rc = "STOP" -> R([h.c EXCEPT !.in_status = "STOP"], "STOP")
    [] OTHER -> R([h.c EXCEPT !.in_status = "ERROR"], "ERROR"))

\* The inbound data entry point. The result carries the returned stream
\* state in rc.
req_data(c, chunk) ==
  IF c.in_status = "STOP" THEN R(c, "STOP")
  ELSE IF c.in_status = "ERROR" THEN R(c, "ERROR")
  ELSE IF c.in_tx = 0 /\ c.in_state # "IDLE" THEN R([c EXCEPT !.in_status = "ERROR"], "ERROR")
  ELSE IF chunk = <<>> /\ c.in_status # "CLOSED" THEN R(c, "CLOSED")
  ELSE
  LET c1 == [c EXCEPT !.in_curr_data = chunk, !.in_pos = 0, !.in_trace = <<>>,
                      !.in_current_receiver_offset = 0] IN
  IF c1.in_status = "TUNNEL" THEN R(c1, "TUNNEL")
  ELSE ReqLoop([c1 EXCEPT !.out_status = IF @ = "DATA_OTHER" THEN "DATA" ELSE @])

\* ------------------------------------------------------------------------
\* Outbound state machine (src/htp_response.rs)
\* ------------------------------------------------------------------------

\* The value of out_next_byte when there is no next byte (-1).
EOF == "EOF"

out_current_len(c) == IF c.out_current_data = None THEN 0 ELSE Len(c.out_current_data)
OutAvail(c) == c.out_current_read_offset < out_current_len(c)
OutByte(c) == c.out_current_data[c.out_current_read_offset + 1]

\* OUT_COPY_BYTE: read one byte of the chunk (there is one).
OutCopyByte(c) ==
  [c EXCEPT !.out_next_byte = OutByte(c), !.out_current_read_offset = @ + 1]

\* OUT_PEEK_NEXT: look at the next byte of the chunk without reading it.
OutPeekNext(c) ==
  [c EXCEPT !.out_next_byte = IF OutAvail(c) THEN OutByte(c) ELSE EOF]

\* The bytes of the chunk that were read but not yet consumed.
OutUnconsumed(c) ==
  IF c.out_current_data = None THEN <<>>
  ELSE SubSeq(c.out_current_data, c.out_current_consume_offset + 1,
              c.out_current_read_offset)

\* Append the unconsumed bytes to the rollover buffer; fails over the limit.
htp_connp_res_buffer(c) ==
  IF c.out_current_data = None THEN [c |-> c, ok |-> TRUE]
  ELSE
  LET len == c.out_current_read_offset - c.out_current_consume_offset
      newlen == (IF c.out_buf = None THEN 0 ELSE Len(c.out_buf)) + len
                + (IF c.out_header = None THEN 0 ELSE Len(c.out_header))
  IN IF newlen > FieldLimit THEN [c |-> c, ok |-> FALSE]
     ELSE [c |-> [c EXCEPT !.out_buf = (IF @ = None THEN <<>> ELSE @) \o OutUnconsumed(c),
                           !.out_current_consume_offset = c.out_current_read_offset],
           ok |-> TRUE]

\* The bytes to work on: the unconsumed bytes, after whatever is buffered.
htp_connp_res_consolidate_data(c) ==
  IF c.out_buf = None THEN [c |-> c, ok |-> TRUE, data |-> OutUnconsumed(c)]
  ELSE LET b == htp_connp_res_buffer(c)
       IN [c |-> b.c, ok |-> b.ok, data |-> b.c.out_buf]

htp_connp_res_clear_buffer(c) ==
  [c EXCEPT !.out_current_consume_offset = c.out_current_read_offset, !.out_buf = None]

\* transaction: hand response body bytes to the body data callbacks.
htp_tx_res_process_body_data_ex(c, data) ==
  IF data = <<>> THEN R(c, "OK")
  ELSE R(RunHook(c, "response_body_data", c.out_tx), HookRc(c, "response_body_data"))

\* Consume n bytes of the chunk.
OutConsume(c, n) ==
  [c EXCEPT !.out_current_read_offset = @ + n, !.out_current_consume_offset = @ + n]

RECURSIVE htp_connp_RES_BODY_CHUNKED_DATA_END(_)
htp_connp_RES_BODY_CHUNKED_DATA_END(c) ==
  IF ~OutAvail(c) THEN R(c, "DATA")
  ELSE LET c1 == [OutCopyByte(c) EXCEPT !.out_current_consume_offset = @ + 1] IN
       IF c1.out_next_byte = LF
       THEN R([c1 EXCEPT !.out_state = "RES_BODY_CHUNKED_LENGTH"], "OK")
       ELSE htp_connp_RES_BODY_CHUNKED_DATA_END(c1)

htp_connp_RES_BODY_CHUNKED_DATA(c) ==
  LET bytes_to_consume ==
        Min(out_current_len(c) - c.out_current_read_offset, c.out_chunked_length)
  IN IF bytes_to_consume = 0 THEN R(c, "DATA")
     ELSE LET p == htp_tx_res_process_body_data_ex(
                     c, SubSeq(c.out_current_data, c.out_current_read_offset + 1,
                               c.out_current_read_offset + bytes_to_consume))
              c1 == [OutConsume(p.c, bytes_to_consume)
                       EXCEPT !.out_chunked_length = @ - bytes_to_consume]
          IN IF c1.out_chunked_length = 0
             THEN R([c1 EXCEPT !.out_state = "RES_BODY_CHUNKED_DATA_END"], "OK")
             ELSE R(c1, "DATA")

\* Number of unconsumed bytes a chunk length line needs before it is probed.
ProbeLen == 8

\* FALSE when the unconsumed bytes cannot be the start of a chunk length.
data_probe_chunk_length(c) ==
  LET d == OutUnconsumed(c)
      i == FirstNotIn(d, Space)
  IN \/ Len(d) < ProbeLen
     \/ i > Len(d)
     \/ IsHex(d[i])

RECURSIVE htp_connp_RES_BODY_CHUNKED_LENGTH(_)
htp_connp_RES_BODY_CHUNKED_LENGTH(c) ==
  IF ~OutAvail(c) THEN R(c, "DATA_BUFFER")
  ELSE
  LET c1 == OutCopyByte(c) IN
  IF ~(c1.out_next_byte = LF \/ ~data_probe_chunk_length(c1))
  THEN htp_connp_RES_BODY_CHUNKED_LENGTH(c1)
  ELSE
  LET k == htp_connp_res_consolidate_data(c1)
      len == Len(k.data)
      n == parse_chunked_length(k.data)
      c2 == [k.c EXCEPT !.out_chunked_length = n]
  IN IF ~k.ok THEN R(k.c, "ERROR")
     ELSE IF n = EmptyChunkLine THEN htp_connp_RES_BODY_CHUNKED_LENGTH(c2)
     ELSE IF n < 0
     THEN R([c2 EXCEPT !.out_current_read_offset = IF len > @ THEN 0 ELSE @ - len,
                       !.out_state = "RES_BODY_IDENTITY_STREAM_CLOSE",
                       !.txs[c.out_tx].response_transfer_coding = "IDENTITY"], "OK")
     ELSE LET c3 == htp_connp_res_clear_buffer(c2) IN
          IF n > 0 THEN R([c3 EXCEPT !.out_state = "RES_BODY_CHUNKED_DATA"], "OK")
          ELSE R([c3 EXCEPT !.out_state = "RES_HEADERS",
                            !.txs[c.out_tx].response_progress = HTP_RESPONSE_TRAILER], "OK")

htp_connp_RES_BODY_IDENTITY_CL_KNOWN(c) ==
  LET bytes_to_consume ==
        Min(out_current_len(c) - c.out_current_read_offset, c.out_body_data_left)
  IN IF c.out_status = "CLOSED" THEN R([c EXCEPT !.out_state = "RES_FINALIZE"], "OK")
     ELSE IF bytes_to_consume = 0 THEN R(c, "DATA")
     ELSE LET p == htp_tx_res_process_body_data_ex(
                     c, SubSeq(c.out_current_data, c.out_current_read_offset + 1,
                               c.out_current_read_offset + bytes_to_consume))
              c1 == [OutConsume(p.c, bytes_to_consume)
                       EXCEPT !.out_body_data_left = @ - bytes_to_consume]
          IN IF c1.out_body_data_left = 0
             THEN R([c1 EXCEPT !.out_state = "RES_FINALIZE"], "OK")
             ELSE R(c1, "DATA")

htp_connp_RES_BODY_IDENTITY_STREAM_CLOSE(c) ==
  LET bytes_to_consume == out_current_len(c) - c.out_current_read_offset
      c1 == IF bytes_to_consume = 0 THEN c
            ELSE OutConsume(htp_tx_res_process_body_data_ex(
                              c, SubSeq(c.out_current_data, c.out_current_read_offset + 1,
                                        out_current_len(c))).c, bytes_to_consume)
  IN IF c1.out_status = "CLOSED" THEN R([c1 EXCEPT !.out_state = "RES_FINALIZE"], "OK")
     ELSE R(c1, "DATA")

\* transaction: the response headers are complete.
htp_tx_state_response_headers(c) ==
  R(RunHook(c, "response_headers", c.out_tx), HookRc(c, "response_headers"))

\* TRUE when sub occurs in s, ignoring case.
ContainsNoCase(s, sub) ==
  \E i \in 0..(Len(s) - Len(sub)) : EqNoCase(SubSeq(s, i + 1, i + Len(sub)), sub)

\* htp_connp_RES_BODY_DETERMINE without the test of seen_100continue: every
\* interim 100 response is accepted.
htp_connp_RES_BODY_DETERMINE_every_100(c) ==
  LET tx == c.out_tx
      t == c.txs[tx]
      status == t.response_status_number
      connect == t.request_method_number = "CONNECT"
      \* a CONNECT that was refused unblocks the inbound side
      c0 == IF connect /\ status \notin 200..299
            THEN [c EXCEPT !.in_status = "DATA",
                           !.out_data_other_at_tx_end = IF status = 407 THEN @ ELSE 1]
            ELSE c
      cl == HeaderIdx(t.response_headers, ContentLengthName)
      te == HeaderIdx(t.response_headers, TransferEncodingName)
      nobody == \/ t.request_method_number = "HEAD"
                \/ /\ (status \in 100..199 \/ status = 204 \/ status = 304)
                   /\ te = 0 /\ cl = 0
      len == IF cl = 0 THEN -1 ELSE parse_content_length(t.response_headers[cl].value)
  IN
  IF connect /\ status \in 200..299
  THEN htp_tx_state_response_headers([c EXCEPT !.out_state = "RES_FINALIZE"])
  ELSE IF status = 101 /\ te = 0 /\ cl = 0
  THEN htp_tx_state_response_headers(
         [c0 EXCEPT !.out_state = "RES_FINALIZE",
                    !.in_status = "TUNNEL", !.out_status = "TUNNEL"])
  ELSE IF status = 100 /\ te = 0 /\ cl = 0
  THEN IF FALSE THEN R(c0, "ERROR")
       ELSE R([c0 EXCEPT !.txs[tx].response_headers = <<>>,
                         !.out_state = "RES_LINE",
                         !.txs[tx].response_progress = HTP_RESPONSE_LINE,
                         !.txs[tx].seen_100continue = @ + 1], "OK")
  ELSE IF nobody
  THEN htp_tx_state_response_headers(
         [c0 EXCEPT !.txs[tx].response_transfer_coding = "NO_BODY",
                    !.out_state = "RES_FINALIZE"])
  ELSE IF te # 0 /\ ContainsNoCase(t.response_headers[te].value, Chunked)
  THEN htp_tx_state_response_headers(
         [c0 EXCEPT !.txs[tx].response_transfer_coding = "CHUNKED",
                    !.txs[tx].flags = IF cl # 0 THEN @ \cup {"REQUEST_SMUGGLING"} ELSE @,
                    !.out_state = "RES_BODY_CHUNKED_LENGTH",
                    !.txs[tx].response_progress = HTP_RESPONSE_BODY])
  ELSE IF cl # 0
  THEN LET c1 == [c0 EXCEPT !.txs[tx].response_transfer_coding = "IDENTITY",
                            !.txs[tx].flags = IF t.response_headers[cl].repeated
                                              THEN @ \cup {"REQUEST_SMUGGLING"} ELSE @,
                            !.txs[tx].response_content_length = len]
       IN IF len < 0 THEN R(c1, "ERROR")
          ELSE IF len # 0
          THEN htp_tx_state_response_headers(
                 [c1 EXCEPT !.out_content_length = len, !.out_body_data_left = len,
                            !.out_state = "RES_BODY_IDENTITY_CL_KNOWN",
                            !.txs[tx].response_progress = HTP_RESPONSE_BODY])
          ELSE htp_tx_state_response_headers(
                 [c1 EXCEPT !.out_content_length = len, !.out_body_data_left = len,
                            !.out_state = "RES_FINALIZE"])
  ELSE htp_tx_state_response_headers(
         [c0 EXCEPT !.out_state = "RES_BODY_IDENTITY_STREAM_CLOSE",
                    !.txs[tx].response_transfer_coding = "IDENTITY",
                    !.txs[tx].response_progress = HTP_RESPONSE_BODY,
                    !.out_body_data_left = -1])

\* htp_connp_RES_BODY_DETERMINE with a 101 response that makes a tunnel of
\* the outbound direction only.
htp_connp_RES_BODY_DETERMINE_outbound_tunnel(c) ==
  LET tx == c.out_tx
      t == c.txs[tx]
      status == t.response_status_number
      connect == t.request_method_number = "CONNECT"
      \* a CONNECT that was refused unblocks the inbound side
      c0 == IF connect /\ status \notin 200..299
            THEN [c EXCEPT !.in_status = "DATA",
                           !.out_data_other_at_tx_end = IF status = 407 THEN @ ELSE 1]
            ELSE c
      cl == HeaderIdx(t.response_headers, ContentLengthName)
      te == HeaderIdx(t.response_headers, TransferEncodingName)
      nobody == \/ t.request_method_number = "HEAD"
                \/ /\ (status \in 100..199 \/ status = 204 \/ status = 304)
                   /\ te = 0 /\ cl = 0
      len == IF cl = 0 THEN -1 ELSE parse_content_length(t.response_headers[cl].value)
  IN
  IF connect /\ status \in 200..299
  THEN htp_tx_state_response_headers([c EXCEPT !.out_state = "RES_FINALIZE"])
  ELSE IF status = 101 /\ te = 0 /\ cl = 0
  THEN htp_tx_state_response_headers(
         [c0 EXCEPT !.out_state = "RES_FINALIZE",
                    !.out_status = "TUNNEL"])
  ELSE IF status = 100 /\ te = 0 /\ cl = 0
  THEN IF t.seen_100continue # 0 THEN R(c0, "ERROR")
       ELSE R([c0 EXCEPT !.txs[tx].response_headers = <<>>,
                         !.out_state = "RES_LINE",
                         !.txs[tx].response_progress = HTP_RESPONSE_LINE,
                         !.txs[tx].seen_100continue = @ + 1], "OK")
  ELSE IF nobody
  THEN htp_tx_state_response_headers(
         [c0 EXCEPT !.txs[tx].response_transfer_coding = "NO_BODY",
                    !.out_state = "RES_FINALIZE"])
  ELSE IF te # 0 /\ ContainsNoCase(t.response_headers[te].value, Chunked)
  THEN htp_tx_state_response_headers(
         [c0 EXCEPT !.txs[tx].response_transfer_coding = "CHUNKED",
                    !.txs[tx].flags = IF cl # 0 THEN @ \cup {"REQUEST_SMUGGLING"} ELSE @,
                    !.out_state = "RES_BODY_CHUNKED_LENGTH",
                    !.txs[tx].response_progress = HTP_RESPONSE_BODY])
  ELSE IF cl # 0
  THEN LET c1 == [c0 EXCEPT !.txs[tx].response_transfer_coding = "IDENTITY",
                            !.txs[tx].flags = IF t.response_headers[cl].repeated
                                              THEN @ \cup {"REQUEST_SMUGGLING"} ELSE @,
                            !.txs[tx].response_content_length = len]
       IN IF len < 0 THEN R(c1, "ERROR")
          ELSE IF len # 0
          THEN htp_tx_state_response_headers(
                 [c1 EXCEPT !.out_content_length = len, !.out_body_data_left = len,
                            !.out_state = "RES_BODY_IDENTITY_CL_KNOWN",
                            !.txs[tx].response_progress = HTP_RESPONSE_BODY])
          ELSE htp_tx_state_response_headers(
                 [c1 EXCEPT !.out_content_length = len, !.out_body_data_left = len,
                            !.out_state = "RES_FINALIZE"])
  ELSE htp_tx_state_response_headers(
         [c0 EXCEPT !.out_state = "RES_BODY_IDENTITY_STREAM_CLOSE",
                    !.txs[tx].response_transfer_coding = "IDENTITY",
                    !.txs[tx].response_progress = HTP_RESPONSE_BODY,
                    !.out_body_data_left = -1])

htp_connp_RES_BODY_DETERMINE(c) ==
  LET tx == c.out_tx
      t == c.txs[tx]
      status == t.response_status_number
      connect == t.request_method_number = "CONNECT"
      \* a CONNECT that was refused unblocks the inbound side
      c0 == IF connect /\ status \notin 200..299
            THEN [c EXCEPT !.in_status = "DATA",
                           !.out_data_other_at_tx_end = IF status = 407 THEN @ ELSE 1]
            ELSE c
      cl == HeaderIdx(t.response_headers, ContentLengthName)
      te == HeaderIdx(t.response_headers, TransferEncodingName)
      nobody == \/ t.request_method_number = "HEAD"
                \/ /\ (status \in 100..199 \/ status = 204 \/ status = 304)
                   /\ te = 0 /\ cl = 0
      len == IF cl = 0 THEN -1 ELSE parse_content_length(t.response_headers[cl].value)
  IN
  IF connect /\ status \in 200..299
  THEN htp_tx_state_response_headers([c EXCEPT !.out_state = "RES_FINALIZE"])
  ELSE IF status = 101 /\ te = 0 /\ cl = 0
  THEN htp_tx_state_response_headers(
         [c0 EXCEPT !.out_state = "RES_FINALIZE",
                    !.in_status = "TUNNEL", !.out_status = "TUNNEL"])
  ELSE IF status = 100 /\ te = 0 /\ cl = 0
  THEN IF t.seen_100continue # 0 THEN R(c0, "ERROR")
       ELSE R([c0 EXCEPT !.txs[tx].response_headers = <<>>,
                         !.out_state = "RES_LINE",
                         !.txs[tx].response_progress = HTP_RESPONSE_LINE,
                         !.txs[tx].seen_100continue = @ + 1], "OK")
  ELSE IF nobody
  THEN htp_tx_state_response_headers(
         [c0 EXCEPT !.txs[tx].response_transfer_coding = "NO_BODY",
                    !.out_state = "RES_FINALIZE"])
  ELSE IF te # 0 /\ ContainsNoCase(t.response_headers[te].value, Chunked)
  THEN htp_tx_state_response_headers(
         [c0 EXCEPT !.txs[tx].response_transfer_coding = "CHUNKED",
                    !.txs[tx].flags = IF cl # 0 THEN @ \cup {"REQUEST_SMUGGLING"} ELSE @,
                    !.out_state = "RES_BODY_CHUNKED_LENGTH",
                    !.txs[tx].response_progress = HTP_RESPONSE_BODY])
  ELSE IF cl # 0
  THEN LET c1 == [c0 EXCEPT !.txs[tx].response_transfer_coding = "IDENTITY",
                            !.txs[tx].flags = IF t.response_headers[cl].repeated
                                              THEN @ \cup {"REQUEST_SMUGGLING"} ELSE @,
                            !.txs[tx].response_content_length = len]
       IN IF len < 0 THEN R(c1, "ERROR")
          ELSE IF len # 0
          THEN htp_tx_state_response_headers(
                 [c1 EXCEPT !.out_content_length = len, !.out_body_data_left = len,
                            !.out_state = "RES_BODY_IDENTITY_CL_KNOWN",
                            !.txs[tx].response_progress = HTP_RESPONSE_BODY])
          ELSE htp_tx_state_response_headers(
                 [c1 EXCEPT !.out_content_length = len, !.out_body_data_left = len,
                            !.out_state = "RES_FINALIZE"])
  ELSE htp_tx_state_response_headers(
         [c0 EXCEPT !.out_state = "RES_BODY_IDENTITY_STREAM_CLOSE",
                    !.txs[tx].response_transfer_coding = "IDENTITY",
                    !.txs[tx].response_progress = HTP_RESPONSE_BODY,
                    !.out_body_data_left = -1])

\* htp_response_generic.rs: parse one response header line and store it in
\* the outbound transaction.
htp_process_response_header_generic(c, line) ==
  LET t == c.txs[c.out_tx]
      a == AddHeader(t.response_headers, t.res_header_repetitions, ParseHeaderLine(line))
  IN [c EXCEPT !.txs[c.out_tx].response_headers = a.hs,
               !.txs[c.out_tx].res_header_repetitions = a.reps]

\* Parse the pending response header line, if there is one.
TakeOutHeader(c) ==
  IF c.out_header = None THEN c
  ELSE [htp_process_response_header_generic(c, c.out_header) EXCEPT !.out_header = None]

\* htp_chomp: remove line endings LF or CR LF from the end; r is the number
\* of bytes the last removal took.
RECURSIVE htp_chomp(_, _)
htp_chomp(s, r) ==
  IF s = <<>> \/ s[Len(s)] # LF THEN [data |-> s, r |-> r]
  ELSE LET s1 == Take(s, Len(s) - 1) IN
       IF s1 = <<>> THEN [data |-> s1, r |-> 1]
       ELSE IF s1[Len(s1)] = CR THEN htp_chomp(Take(s1, Len(s1) - 1), 2)
       ELSE htp_chomp(s1, 1)

\* The end of a response header or trailer block.
ResHeadersDone(c) ==
  LET c1 == htp_connp_res_clear_buffer(TakeOutHeader(c)) IN
  IF c1.txs[c1.out_tx].response_progress = HTP_RESPONSE_HEADERS
  THEN R([c1 EXCEPT !.out_state = "RES_BODY_DETERMINE"], "OK")
  ELSE R(RunHook([c1 EXCEPT !.out_state = "RES_FINALIZE"], "response_trailer", c1.out_tx),
         HookRc(c, "response_trailer"))

\* One complete header line: start a header, or fold into the pending one.
ResHeaderLine(c, data) ==
  LET tx == c.out_tx IN
  IF ~is_line_folded(data)
  THEN LET c1 == OutPeekNext(TakeOutHeader(c)) IN
       IF ~is_folding_char(c1.out_next_byte)
       THEN htp_process_response_header_generic(c1, data)
       ELSE [c1 EXCEPT !.out_header = data]
  ELSE IF c.out_header = None
  THEN [c EXCEPT !.txs[tx].flags = @ \cup {"INVALID_FOLDING"}, !.out_header = data]
  ELSE IF /\ FirstIn(data, {":"}) # 0
          /\ FirstIn(c.out_header, {":"}) # 0
          /\ c.txs[tx].response_protocol_number = 101
  THEN [htp_process_response_header_generic(c, c.out_header)
          EXCEPT !.txs[tx].flags = @ \cup {"INVALID_FOLDING"},
                 !.out_header = Drop(data, 1)]
  ELSE [c EXCEPT !.out_header = @ \o data]

RECURSIVE htp_connp_RES_HEADERS(_, _, _)

\* The end of a line was read in RES_HEADERS.
ResHeadersEol(c, endwithcr, lfcrending) ==
  LET k == htp_connp_res_consolidate_data(c) IN
  IF ~k.ok THEN R(k.c, "ERROR")
  ELSE IF endwithcr /\ Len(k.data) < 2 THEN htp_connp_RES_HEADERS(k.c, endwithcr, lfcrending)
  ELSE IF is_line_terminator(k.data, FALSE) THEN ResHeadersDone(k.c)
  ELSE htp_connp_RES_HEADERS(
         htp_connp_res_clear_buffer(ResHeaderLine(k.c, htp_chomp(k.data, 0).data)),
         endwithcr, lfcrending)

\* After CR LF was read while the previous line ended in LF CR.
ResHeadersLfCr(c) ==
  LET c1 == OutPeekNext(c) IN
  IF c1.out_next_byte # CR THEN ResHeadersEol(c1, TRUE, FALSE)
  ELSE LET c2 == OutPeekNext([OutCopyByte(c1) EXCEPT !.out_current_consume_offset = @ + 1])
       IN IF c2.out_next_byte # LF THEN ResHeadersEol(c2, TRUE, FALSE)
          ELSE ResHeadersEol([OutCopyByte(c2) EXCEPT !.out_current_consume_offset = @ + 1],
                             TRUE, FALSE)

htp_connp_RES_HEADERS(c, endwithcr, lfcrending) ==
  IF c.out_status = "CLOSED"
  THEN R(RunHook([c EXCEPT !.out_state = "RES_FINALIZE"], "response_trailer", c.out_tx),
         HookRc(c, "response_trailer"))
  ELSE IF ~OutAvail(c) THEN R(c, "DATA_BUFFER")
  ELSE
  LET c1 == OutCopyByte(c) IN
  IF c1.out_next_byte \notin {LF, CR} THEN htp_connp_RES_HEADERS(c1, endwithcr, FALSE)
  ELSE IF c1.out_next_byte = CR
  THEN LET c2 == OutPeekNext(c1) IN
       IF c2.out_next_byte = EOF THEN R(c2, "DATA_BUFFER")
       ELSE IF c2.out_next_byte = LF
       THEN IF lfcrending THEN ResHeadersLfCr(OutCopyByte(c2))
            ELSE ResHeadersEol(OutCopyByte(c2), TRUE, FALSE)
       ELSE IF c2.out_next_byte = CR THEN htp_connp_RES_HEADERS(c2, FALSE, lfcrending)
       ELSE ResHeadersEol(c2, TRUE, FALSE)
  ELSE LET c2 == OutPeekNext(c1) IN
       IF c2.out_next_byte = CR THEN ResHeadersEol(OutCopyByte(c2), FALSE, TRUE)
       ELSE ResHeadersEol(c2, FALSE, FALSE)

Http == <<"h","t","t","p">>
Http10 == <<"H","T","T","P","/","1",".","0">>
Http11 == <<"H","T","T","P","/","1",".","1">>

\* util: a first line that does not start with "http" is response body.
htp_treat_response_line_as_body(data) ==
  LET d == Drop(data, FirstNotIn(data, Space \cup {NUL}) - 1)
  IN Len(d) < 4 \/ ~EqNoCase(Take(d, 4), Http)

\* parsers: protocol number of a protocol token, -1 when it is not known.
htp_parse_protocol(p) ==
  IF EqNoCase(p, Http11) THEN 101 ELSE IF EqNoCase(p, Http10) THEN 100 ELSE -1

\* parsers: the status code, -1 when the token is not a number.
htp_parse_status(s) ==
  IF s # <<>> /\ \A i \in 1..Len(s) : IsDigit(s[i]) THEN NumVal(s, 10) ELSE -1

\* htp_response_generic.rs: protocol, then status code, then message.
htp_parse_response_line_generic(c, line) ==
  LET p == take_not_is_space(take_is_space(line).rest)
      s == take_not_is_space(take_is_space(p.rest).rest)
      c1 == [c EXCEPT !.txs[c.out_tx].response_protocol_number = -2,
                      !.txs[c.out_tx].response_status_number = -1]
  IN IF p.taken = <<>> THEN c1
     ELSE IF s.taken = <<>>
     THEN [c1 EXCEPT !.txs[c.out_tx].response_protocol_number = htp_parse_protocol(p.taken)]
     ELSE [c1 EXCEPT !.txs[c.out_tx].response_protocol_number = htp_parse_protocol(p.taken),
                     !.txs[c.out_tx].response_status_number = htp_parse_status(s.taken)]

\* transaction: the response line has been parsed.
htp_tx_state_response_line(c) ==
  R(RunHook(c, "response_line", c.out_tx), HookRc(c, "response_line"))

\* A complete first line of a response (or what there is of it at close).
ResLineEol(c) ==
  LET k == htp_connp_res_consolidate_data(c)
      tx == c.out_tx
      ch == htp_chomp(k.data, 0)
  IN
  IF ~k.ok THEN R(k.c, "ERROR")
  ELSE IF is_line_ignorable(k.data)
  THEN R(htp_connp_res_clear_buffer(
           [k.c EXCEPT !.out_state = IF c.out_status = "CLOSED" THEN "RES_FINALIZE" ELSE @,
                       !.txs[tx].response_ignored_lines = @ + 1]), "OK")
  ELSE IF htp_treat_response_line_as_body(ch.data)
  THEN LET p == htp_tx_res_process_body_data_ex(
                  [k.c EXCEPT !.out_current_consume_offset = k.c.out_current_read_offset],
                  k.data)
       IN IF out_current_len(p.c) <= p.c.out_current_read_offset
          THEN R([p.c EXCEPT !.txs[tx].response_transfer_coding = "IDENTITY",
                             !.txs[tx].response_progress = HTP_RESPONSE_BODY,
                             !.out_body_data_left = -1,
                             !.out_state = "RES_FINALIZE"], "OK")
          ELSE R(p.c, "OK")
  ELSE LET c1 == htp_tx_state_response_line(htp_parse_response_line_generic(k.c, ch.data)).c
       IN R([htp_connp_res_clear_buffer(c1)
               EXCEPT !.out_state = "RES_HEADERS",
                      !.txs[tx].response_progress = HTP_RESPONSE_HEADERS], "OK")

RECURSIVE htp_connp_RES_LINE(_)
htp_connp_RES_LINE(c) ==
  IF c.out_status # "CLOSED" /\ ~OutAvail(c) THEN R(c, "DATA_BUFFER")
  ELSE
  LET c1 == IF c.out_status # "CLOSED" THEN OutCopyByte(c) ELSE c
      c2 == IF c1.out_next_byte = CR THEN OutPeekNext(c1) ELSE c1
  IN IF c1.out_next_byte = CR /\ c2.out_next_byte = EOF THEN R(c2, "DATA_BUFFER")
     ELSE IF c1.out_next_byte = CR /\ c2.out_next_byte = LF THEN htp_connp_RES_LINE(c2)
     ELSE IF c1.out_next_byte = CR THEN ResLineEol([c2 EXCEPT !.out_next_byte = LF])
     ELSE IF c1.out_next_byte = LF \/ c.out_status = "CLOSED" THEN ResLineEol(c1)
     ELSE htp_connp_RES_LINE(c1)

\* transaction: the response is done. The outbound side yields while the
\* inbound side waits on this transaction, or when a refused CONNECT asked
\* for a stop at the end of the transaction; otherwise it gives up its
\* transaction and goes idle.
htp_tx_state_response_complete_ex(c) ==
  LET tx == c.out_tx
      c1 == IF c.txs[tx].response_progress # HTP_RESPONSE_COMPLETE
            THEN RunHook([c EXCEPT !.txs[tx].response_progress = HTP_RESPONSE_COMPLETE],
                         "response_complete", tx)
            ELSE c
  IN IF c.txs[tx].response_progress # HTP_RESPONSE_COMPLETE
        /\ HookRc(c, "response_complete") # "OK"
     THEN R(c1, HookRc(c, "response_complete"))
     ELSE IF c1.in_status = "DATA_OTHER" /\ c1.in_tx = c1.out_tx THEN R(c1, "DATA_OTHER")
     ELSE IF c1.out_data_other_at_tx_end # 0
     THEN R([c1 EXCEPT !.out_data_other_at_tx_end = 0], "DATA_OTHER")
     ELSE R([finalize(c1, tx) EXCEPT !.out_tx = 0, !.out_state = "RES_IDLE"], "OK")

\* Read up to and including the next LF; FALSE in ok when the chunk ends
\* before one.
RECURSIVE OutReadLine(_)
OutReadLine(c) ==
  IF ~OutAvail(c) THEN [c |-> c, ok |-> FALSE]
  ELSE LET c1 == OutCopyByte(c) IN
       IF c1.out_next_byte = LF THEN [c |-> c1, ok |-> TRUE] ELSE OutReadLine(c1)

\* The tail of RES_FINALIZE, once the bytes to look at were read.
ResFinalizeWork(c) ==
  LET k == htp_connp_res_consolidate_data(c)
      bytes_left == Len(k.data)
  IN IF ~k.ok THEN R(k.c, "ERROR")
     ELSE IF bytes_left = 0 THEN htp_tx_state_response_complete_ex(k.c)
     ELSE IF htp_treat_response_line_as_body(k.data)
     THEN R(htp_connp_res_clear_buffer(htp_tx_res_process_body_data_ex(k.c, k.data).c), "OK")
     ELSE LET ro == IF k.c.out_current_read_offset < bytes_left THEN 0
                    ELSE k.c.out_current_read_offset - bytes_left
          IN htp_tx_state_response_complete_ex(
               [k.c EXCEPT !.out_current_read_offset = ro,
                           !.out_current_consume_offset = IF ro < @ THEN ro ELSE @])

htp_connp_RES_FINALIZE(c) ==
  IF c.out_status = "CLOSED" THEN ResFinalizeWork(c)
  ELSE
  LET c1 == OutPeekNext(c) IN
  IF c1.out_next_byte = EOF THEN htp_tx_state_response_complete_ex(c1)
  ELSE IF c1.out_next_byte # LF \/ c1.out_current_consume_offset >= c1.out_current_read_offset
  THEN LET l == OutReadLine(c1) IN
       IF l.ok THEN ResFinalizeWork(l.c) ELSE R(l.c, "DATA_BUFFER")
  ELSE ResFinalizeWork(c1)

\* transaction: a response starts on transaction tx.
htp_tx_state_response_start(c, tx) ==
  LET c1 == RunHook([c EXCEPT !.out_tx = tx], "response_start", tx) IN
  IF HookRc(c, "response_start") # "OK" THEN R(c1, HookRc(c, "response_start"))
  ELSE IF c.txs[tx].is_protocol_0_9
  THEN R([c1 EXCEPT !.txs[tx].response_transfer_coding = "IDENTITY",
                    !.txs[tx].response_progress = HTP_RESPONSE_BODY,
                    !.out_state = "RES_BODY_IDENTITY_STREAM_CLOSE",
                    !.out_body_data_left = -1], "OK")
  ELSE R([c1 EXCEPT !.out_state = "RES_LINE",
                    !.txs[tx].response_progress = HTP_RESPONSE_LINE], "OK")

\* htp_connp_RES_IDLE without the count of the transaction that is made up
\* for a response without a request.
htp_connp_RES_IDLE_index_kept(c) ==
  IF ~OutAvail(c) THEN R(c, "DATA")
  ELSE IF c.out_next_tx_index < Len(c.txs)
  THEN htp_tx_state_response_start(
         [c EXCEPT !.out_next_tx_index = @ + 1,
                   !.out_content_length = -1, !.out_body_data_left = -1],
         c.out_next_tx_index + 1)
  ELSE \* a response without a request: finish a request that is waiting
       \* for more, and answer a made-up transaction
       LET c1 == IF c.in_state = "FINALIZE" THEN state_request_complete(c).c ELSE c
           c2 == create_tx(c1)
           tx == Len(c2.txs)
       IN htp_tx_state_response_start(
            [c2 EXCEPT !.in_tx = tx, !.in_content_length = -1, !.in_body_data_left = -1,
                       !.in_state = "FINALIZE"], tx)

htp_connp_RES_IDLE(c) ==
  IF ~OutAvail(c) THEN R(c, "DATA")
  ELSE IF c.out_next_tx_index < Len(c.txs)
  THEN htp_tx_state_response_start(
         [c EXCEPT !.out_next_tx_index = @ + 1,
                   !.out_content_length = -1, !.out_body_data_left = -1],
         c.out_next_tx_index + 1)
  ELSE \* a response without a request: finish a request that is waiting
       \* for more, and answer a made-up transaction
       LET c1 == IF c.in_state = "FINALIZE" THEN state_request_complete(c).c ELSE c
           c2 == create_tx(c1)
           tx == Len(c2.txs)
       IN htp_tx_state_response_start(
            [c2 EXCEPT !.in_tx = tx, !.in_content_length = -1, !.in_body_data_left = -1,
                       !.in_state = "FINALIZE",
                       !.out_next_tx_index = @ + 1], tx)

\* Run the handler of the current outbound state.
handle_out_state(c) ==
  CASE c.out_state = "RES_IDLE" -> htp_connp_RES_IDLE(c)
    [] c.out_state = "RES_LINE" -> htp_connp_RES_LINE(c)
    [] c.out_state = "RES_HEADERS" -> htp_connp_RES_HEADERS(c, FALSE, FALSE)
    [] c.out_state = "RES_BODY_DETERMINE" -> htp_connp_RES_BODY_DETERMINE(c)
    [] c.out_state = "RES_BODY_CHUNKED_LENGTH" -> htp_connp_RES_BODY_CHUNKED_LENGTH(c)
    [] c.out_state = "RES_BODY_CHUNKED_DATA" -> htp_connp_RES_BODY_CHUNKED_DATA(c)
    [] c.out_state = "RES_BODY_CHUNKED_DATA_END" -> htp_connp_RES_BODY_CHUNKED_DATA_END(c)
    [] c.out_state = "RES_BODY_IDENTITY_CL_KNOWN" -> htp_connp_RES_BODY_IDENTITY_CL_KNOWN(c)
    [] c.out_state = "RES_BODY_IDENTITY_STREAM_CLOSE" ->
         htp_connp_RES_BODY_IDENTITY_STREAM_CLOSE(c)
    [] c.out_state = "RES_FINALIZE" -> htp_connp_RES_FINALIZE(c)
    [] OTHER -> R(c, "ERROR")

\* Note a change of outbound state. No raw header or trailer data callbacks
\* are registered, so the data receivers have nothing to deliver. out_trace
\* keeps the states the call has entered, each with the transaction it was
\* entered for.
htp_res_handle_state_change(c) ==
  IF c.out_state_previous = c.out_state THEN c
  ELSE [c EXCEPT !.out_state_previous = c.out_state,
                 !.out_trace = Append(@, <<c.out_state, c.out_tx>>)]

\* The processing loop of htp_connp_res_data.
RECURSIVE ResLoop(_)
ResLoop(c) ==
  With(handle_out_state(c), LAMBDA h :
  CASE h.rc = "OK" ->
         IF h.c.out_status = "TUNNEL" THEN R(h.c, "TUNNEL")
         ELSE ResLoop(htp_res_handle_state_change(h.c))
    [] h.rc = "DATA" -> R([h.c EXCEPT !.out_status = "DATA"], "DATA")
    [] h.rc = "DATA_BUFFER" ->
         With(htp_connp_res_buffer(h.c), LAMBDA b :
         IF b.ok THEN R([b.c EXCEPT !.out_status = "DATA"], "DATA")
         ELSE R([b.c EXCEPT !.out_status = "ERROR"], "ERROR"))
    [] h.rc = "STOP" -> R([h.c EXCEPT !.out_status = "STOP"], "STOP")
    [] h.rc = "DATA_OTHER" ->
         IF h.c.out_current_read_offset >= out_current_len(h.c)
         THEN R([h.c EXCEPT !.out_status = "DATA"], "DATA")
         ELSE R([h.c EXCEPT !.out_status = "DATA_OTHER"], "DATA_OTHER")
    [] OTHER -> R([h.c EXCEPT !.out_status = "ERROR"], "ERROR"))

\* The outbound data entry point; a NULL chunk is None. The result carries
\* the returned stream state in rc.
htp_connp_res_data(c, chunk) ==
  IF c.out_status = "STOP" THEN R(c, "STOP")
  ELSE IF c.out_status = "ERROR" THEN R(c, "ERROR")
  ELSE IF c.out_tx = 0 /\ c.out_state # "RES_IDLE"
  THEN R([c EXCEPT !.out_status = "ERROR"], "ERROR")
  ELSE IF chunk \in {None, <<>>} /\ c.out_status # "CLOSED" THEN R(c, "CLOSED")
  ELSE
  LET c1 == [c EXCEPT !.out_current_data = chunk,
                      !.out_current_read_offset = 0,
                      !.out_current_consume_offset = 0,
                      !.out_trace = <<>>]
  IN IF c1.out_status = "TUNNEL" THEN R(c1, "TUNNEL") ELSE ResLoop(c1)

\* ------------------------------------------------------------------------
\* The connection and its caller
\* ------------------------------------------------------------------------

\* connection_parser.rs close: both streams are closed unless they failed,
\* and each parser runs once more on an empty chunk to finish what it can.
close(c) ==
  With(req_data([c EXCEPT !.in_status = IF @ = "ERROR" THEN @ ELSE "CLOSED",
                          !.out_status = IF @ = "ERROR" THEN @ ELSE "CLOSED"], <<>>),
       LAMBDA r :
  With(htp_connp_res_data(r.c, None), LAMBDA s :
  [c |-> s.c, in_rc |-> r.rc, out_rc |-> s.rc]))

\* A configuration all of whose callbacks return OK.
NoHook == [hook |-> "none", rc |-> "OK"]

\* A connection parser after new() and open().
NewConnp ==
  [ in_status |-> "OPEN", in_state |-> "IDLE", in_state_previous |-> "NONE",
    in_curr_data |-> <<>>, in_pos |-> 0, in_buf |-> <<>>, in_header |-> None,
    in_tx |-> 0, in_content_length |-> -1, in_body_data_left |-> -1,
    in_chunked_length |-> 0, in_trace |-> <<>>,
    in_data_receiver_hook |-> NoReceiver, in_current_receiver_offset |-> 0,
    out_status |-> "OPEN", out_state |-> "RES_IDLE", out_state_previous |-> "NONE",
    out_current_data |-> None, out_current_read_offset |-> 0,
    out_current_consume_offset |-> 0, out_next_byte |-> NUL,
    out_buf |-> None, out_header |-> None,
    out_tx |-> 0, out_next_tx_index |-> 0, out_content_length |-> -1,
    out_body_data_left |-> -1, out_chunked_length |-> 0,
    out_data_other_at_tx_end |-> 0, out_trace |-> <<>>,
    txs |-> <<>>, conn_flags |-> {}, logs |-> {},
    hooks |-> [request |-> <<>>, response |-> <<>>, transaction |-> <<>>,
              completion |-> <<>>,
              second |-> [request |-> <<>>, response |-> <<>>, transaction |-> <<>>]],
    cfg |-> NoHook ]

\* ------------------------------------------------------------------------
\* Traffic
\* ------------------------------------------------------------------------

ReqLineGet == <<"G","E","T",SP,"/",SP,"H","T","T","P","/","1",".","1",LF>>
ReqLinePost == <<"P","O","S","T",SP,"/",SP,"H","T","T","P","/","1",".","1",LF>>
ReqLineConnect ==
  <<"C","O","N","N","E","C","T",SP,"h",":","1",SP,"H","T","T","P","/","1",".","1",LF>>
ReqLineLong ==
  <<"G","E","T",SP,"/","a","a","a","a","a","a","a","a","a","a","a","a","a","a","a",
    "a","a","a","a","a","a","a","a","a","a","a","a">>
ReqLineGetX == <<"G","E","T",SP,"/",SP,"X",LF>>
ReqLinePutX == <<"P","U","T",SP,"/",SP,"X",LF>>
ReqLineHead == <<"H","E","A","D",SP,"/",LF>>
ReqLineShort == <<"G","E","T",SP,"/",LF>>
HdrLength2 == <<"C","o","n","t","e","n","t","-","L","e","n","g","t","h",":","2",LF>>
HdrLength0 == <<"C","o","n","t","e","n","t","-","L","e","n","g","t","h",":","0",LF>>
HdrChunked ==
  <<"T","r","a","n","s","f","e","r","-","E","n","c","o","d","i","n","g",":",
    "c","h","u","n","k","e","d",LF>>
HdrLong ==
  <<"A",":","a","a","a","a","a","a","a","a","a","a","a","a","a","a","a","a","a","a",
    "a","a","a","a","a","a","a","a","a","a","a","a",LF>>
HdrFold == <<SP,"b",LF>>
Body2 == <<"h","i">>
Chunks == <<"2",LF,"h","i",LF,"0",LF,LF>>
BadChunk == <<"z","z",LF>>
Blank == <<SP,LF>>
Junk == <<"x","y","z",LF>>
ResLine100 == <<"H","T","T","P","/","1",".","1",SP,"1","0","0",LF>>
ResLine101 == <<"H","T","T","P","/","1",".","1",SP,"1","0","1",LF>>
ResLine200 == <<"H","T","T","P","/","1",".","1",SP,"2","0","0",LF>>
ResLine204 == <<"H","T","T","P","/","1",".","1",SP,"2","0","4",LF>>
ResLine304 == <<"H","T","T","P","/","1",".","1",SP,"3","0","4",LF>>
ResLine404 == <<"H","T","T","P","/","1",".","1",SP,"4","0","4",LF>>
ResLine407 == <<"H","T","T","P","/","1",".","1",SP,"4","0","7",LF>>
ResStart == <<"H","T","T","P",LF>>
Eol == <<LF>>

\* The connections the model follows: the bytes of each direction.
RequestWithLength0 == ReqLineGetX \o HdrLength0 \o Eol
ShortRequest == ReqLineGetX \o Eol
OldRequest == ReqLineShort \o <<"x">>

Scenarios ==
  << \* a request and its response with a body
     [inb |-> ReqLineGet \o Eol,
      outb |-> ResLine200 \o HdrLength2 \o Eol \o Body2],
     \* two pipelined requests and the first response
     [inb |-> ReqLineGet \o Eol \o ReqLineGet \o Eol,
      outb |-> ResLine204 \o Eol],
     \* a CONNECT that is accepted, followed by tunnelled bytes
     [inb |-> ReqLineConnect \o Eol \o Junk,
      outb |-> ResLine200 \o Eol \o Junk],
     \* a CONNECT that is accepted, followed by plain HTTP
     [inb |-> ReqLineConnect \o Eol \o ReqLineShort,
      outb |-> ResLine200 \o Eol],
     \* a CONNECT that the proxy wants authenticated
     [inb |-> ReqLineConnect \o Eol \o ReqLineShort,
      outb |-> ResLine407 \o Eol],
     \* a CONNECT that is refused
     [inb |-> ReqLineConnect \o Eol \o ReqLineShort,
      outb |-> ResLine404 \o Eol],
     \* the start of a request line longer than the field limit, and a
     \* protocol upgrade
     [inb |-> ReqLineLong,
      outb |-> ResLine101 \o Eol],
     \* a request with a body
     [inb |-> ReqLinePost \o HdrLength2 \o Eol \o Body2 \o Junk,
      outb |-> <<>>],
     \* 100 Continue, then the final response
     [inb |-> <<>>,
      outb |-> ResLine100 \o Eol \o ResLine204 \o Eol],
     \* chunked bodies
     [inb |-> ReqLinePost \o HdrChunked \o Eol \o Chunks,
      outb |-> <<>>],
     [inb |-> <<>>,
      outb |-> ResLine200 \o HdrChunked \o Eol \o Chunks],
     \* chunk lengths that are no numbers
     [inb |-> ReqLinePost \o HdrChunked \o Eol \o BadChunk,
      outb |-> <<>>],
     [inb |-> <<>>,
      outb |-> ResLine200 \o HdrChunked \o Eol \o BadChunk],
     \* folded headers longer than the field limit
     [inb |-> ReqLineGet \o HdrLong \o HdrFold \o Eol,
      outb |-> <<>>],
     [inb |-> <<>>,
      outb |-> ResLine204 \o HdrLong \o HdrFold \o Eol],
     \* an HTTP/0.9 request and bytes after it
     [inb |-> ReqLineShort \o Junk,
      outb |-> <<>>],
     \* a header line longer than the field limit, and nothing after it
     [inb |-> ReqLineGet \o HdrLong,
      outb |-> <<>>],
     \* a CONNECT that is answered by a protocol upgrade
     [inb |-> ReqLineConnect \o Eol \o Junk,
      outb |-> ResLine101 \o Eol],
     \* an HTTP/0.9 request that is answered by a protocol upgrade, and
     \* bytes after it
     [inb |-> ReqLineShort \o Junk,
      outb |-> ResLine101 \o Eol],
     \* a CONNECT that the proxy wants authenticated, followed by bytes
     \* that are no HTTP
     [inb |-> ReqLineConnect \o Eol \o Junk,
      outb |-> ResLine407 \o Eol],
     \* a CONNECT that is refused, followed by bytes that are no HTTP
     [inb |-> ReqLineConnect \o Eol \o Junk,
      outb |-> ResLine404 \o Eol],
     \* a CONNECT that is answered by a response without a body, and the
     \* start of the next response right behind it
     [inb |-> ReqLineConnect \o Eol,
      outb |-> ResLine304 \o Eol \o ResStart],
     \* a content length together with the chunked coding, in a request,
     \* in a response, and in the response to a HEAD request
     [inb |-> ReqLinePost \o HdrLength2 \o HdrChunked \o Eol \o Chunks,
      outb |-> <<>>],
     [inb |-> <<>>,
      outb |-> ResLine200 \o HdrLength2 \o HdrChunked \o Eol \o Chunks],
     [inb |-> ReqLineHead,
      outb |-> ResLine200 \o HdrLength2 \o HdrChunked \o Eol],
     \* two short requests, one right behind the other
     [inb |-> ReqLineGetX \o Eol \o ReqLinePutX \o Eol,
      outb |-> <<>>],
     \* a request and a line of white space behind it
     [inb |-> ReqLineGetX \o Eol \o Blank,
      outb |-> <<>>],
     \* a request, read with a callback that fails
     [inb |-> RequestWithLength0,
      outb |-> <<>>],
     \* a request, read by a caller that also hands over empty chunks
     [inb |-> ShortRequest,
      outb |-> <<>>],
     \* a CONNECT with an empty line behind it that is accepted, and the
     \* start of the next response right behind the answer
     [inb |-> ReqLineConnect \o Eol \o Eol,
      outb |-> ResLine200 \o Eol \o ResStart],
     \* a request that is answered by two interim responses
     [inb |-> ReqLineGet \o Eol,
      outb |-> ResLine100 \o Eol \o ResLine100 \o Eol],
     \* an HTTP/0.9 request and a byte behind it, read by a caller that
     \* also hands over empty chunks
     [inb |-> OldRequest,
      outb |-> <<>>] >>

\* The sizes of the next chunk, when n bytes are left: a few bytes at a
\* time, or all that is left at once.
ChunkLens(n) ==
  {k \in 1..MaxChunk : k <= n} \cup (IF n > 0 THEN {n} ELSE {})

\* The callers of two connections also hand over chunks of no bytes.
EmptyChunks(s) == IF Scenarios[s].inb \in {ShortRequest, OldRequest} THEN {0} ELSE {}

\* The chunk of a call, its cursors and the record of the states the call
\* went through are not looked at again once the call has returned: the
\* model forgets them.
Returned(c) ==
  [c EXCEPT !.in_curr_data = <<>>, !.in_pos = 0, !.in_trace = <<>>,
            !.in_current_receiver_offset = 0,
            !.out_current_data = None, !.out_current_read_offset = 0,
            !.out_current_consume_offset = 0, !.out_trace = <<>>]

\* ---- Decompression chain (decompressors.rs) ----

\* HtpContentEncoding: the encodings a stage can be made for.
Encodings == {"GZIP", "DEFLATE", "ZLIB", "LZMA"}

\* A slice of bytes is a sequence of tokens; a token is the sequence of
\* the decodings it has gone through, each the stage and its algorithm, so
\* the bytes the caller gives are << << >> >> and a slice that was
\* forwarded as it came is unchanged.
Decoded(i, alg, data) == [k \in 1..Len(data) |-> Append(data[k], <<i, alg>>)]

\* What a decoder or the callback answers, taken from d.o in the order of
\* the calls; a call that finds nothing there succeeds.
Outcome(d, kind) == IF d.o[kind] = << >> THEN "ok" ELSE Head(d.o[kind])
Popped(d, kind) == [d EXCEPT !.o[kind] = IF @ = << >> THEN @ ELSE Tail(@)]

RD(d, rc) == [d |-> d, rc |-> rc]

\* The writer slot of a stage while its decoder is taken out or lost.
NoWriter == [alg |-> "none", buf |-> << >>]

\* InnerDecompressor::writer: a new decoder with an empty output buffer;
\* LZMA without options gets a NullBufWriter and passes data through.
writer(encoding, options) ==
  IF encoding = "LZMA" /\ ~options.lzma
  THEN [w |-> [alg |-> "NULL", buf |-> << >>], passthrough |-> TRUE]
  ELSE [w |-> [alg |-> encoding, buf |-> << >>], passthrough |-> FALSE]

\* InnerDecompressor::new. restart_log and gave_up are history: the
\* encodings the restarts chose, and whether a restart was refused.
InnerDecompressor_new(encoding, options) ==
  [writer |-> writer(encoding, options).w,
   inner |-> TRUE,
   encoding |-> encoding,
   next_encoding |-> encoding,
   passthrough |-> writer(encoding, options).passthrough,
   restarts |-> 0,
   options |-> options,
   restart_log |-> << >>,
   gave_up |-> FALSE]

\* restart with the limit on restarts taken out.
restart_unlimited(d, i) ==
  LET s == d.st[i]
      ne == IF s.restarts = 0 THEN s.encoding
            ELSE CASE s.next_encoding = "GZIP" -> "DEFLATE"
                   [] s.next_encoding = "DEFLATE" -> "ZLIB"
                   [] s.next_encoding = "ZLIB" -> "GZIP"
                   [] s.next_encoding = "LZMA" -> "DEFLATE"
      w == writer(ne, s.options)
  IN RD([d EXCEPT !.st[i].next_encoding = ne,
                  !.st[i].writer = w.w,
                  !.st[i].passthrough = IF w.passthrough THEN TRUE ELSE @,
                  !.st[i].restarts = @ + 1,
                  !.st[i].restart_log = Append(@, ne)], "OK")

\* The encoding tried after e, with the cycle turned the other way.
NextEncoding_reversed(e) ==
  CASE e = "GZIP" -> "ZLIB"
    [] e = "DEFLATE" -> "GZIP"
    [] e = "ZLIB" -> "DEFLATE"
    [] e = "LZMA" -> "DEFLATE"

\* restart: the encoding tried after e.
NextEncoding(e) ==
  CASE e = "GZIP" -> "DEFLATE"
    [] e = "DEFLATE" -> "ZLIB"
    [] e = "ZLIB" -> "GZIP"
    [] e = "LZMA" -> "DEFLATE"

\* InnerDecompressor::restart: up to three times, a new decoder replaces
\* the stage's decoder, first of the stage's own encoding and then of the
\* next one; after that the restart is refused.
restart(d, i) ==
  LET s == d.st[i] IN
  IF s.restarts < 3
  THEN LET ne == IF s.restarts = 0 THEN s.encoding ELSE NextEncoding(s.next_encoding)
           w == writer(ne, s.options)
       IN RD([d EXCEPT !.st[i].next_encoding = ne,
                       !.st[i].writer = w.w,
                       !.st[i].passthrough = IF w.passthrough THEN TRUE ELSE @,
                       !.st[i].restarts = @ + 1,
                       !.st[i].restart_log = Append(@, ne)], "OK")
  ELSE RD([d EXCEPT !.st[i].gave_up = TRUE, !.refused = @ \cup {i}], "ERROR")

\* InnerDecompressor::set_passthrough: the flag of stage i and of every
\* stage after it that can still be reached. The callback has no flag.
RECURSIVE set_passthrough(_, _, _)
set_passthrough(d, i, passthrough) ==
  IF i > Len(d.st) THEN d
  ELSE LET d1 == [d EXCEPT !.st[i].passthrough = passthrough]
       IN IF d.st[i].inner THEN set_passthrough(d1, i + 1, passthrough) ELSE d1

\* CallbackWriter::write: the callback takes the slice or fails.
CallbackWriter_write(d, data) ==
  IF Outcome(d, "callback") = "error" THEN RD(Popped(d, "callback"), "ERROR")
  ELSE RD([Popped(d, "callback") EXCEPT !.delivered = Append(@, data)], "OK")

RECURSIVE write(_, _, _)
RECURSIVE flush_writer(_, _, _)

\* The write of whatever follows stage i - 1: stage i or the callback.
inner_write(d, i, data) ==
  IF i > Len(d.st) THEN CallbackWriter_write(d, data) ELSE write(d, i, data)

\* try_passthrough setting the flag of the stage alone.
try_passthrough_own_flag(d, i, data) ==
  LET d1 == [d EXCEPT !.failing = @ \cup {<<i, data>>}, !.st[i].passthrough = TRUE]
  IN IF d1.st[i].inner
     THEN LET r == inner_write(d1, i + 1, data)
          IN IF r.rc # "OK" THEN RD([r.d EXCEPT !.st[i].passthrough = FALSE], r.rc) ELSE r
     ELSE RD(d1, "OK")

\* InnerDecompressor::try_passthrough: set the flags, hand the data on,
\* and clear the flags again when that fails.
try_passthrough(d, i, data) ==
  LET d0 == [d EXCEPT !.failing = @ \cup {<<i, data>>}]
      d1 == set_passthrough(d0, i, TRUE)
  IN IF d1.st[i].inner
     THEN LET r == inner_write(d1, i + 1, data)
          IN IF r.rc # "OK" THEN RD(set_passthrough(r.d, i, FALSE), r.rc) ELSE r
     ELSE RD(d1, "OK")

\* InnerDecompressor::flush_writer with the decoder w taken out of its
\* slot: flush the decoder and hand its buffer to the next stage, again
\* while the flush reports a full buffer; another error restarts. The next
\* stage is taken out for the time of the loop and is put back only when
\* the loop ends without an error.
flush_writer(d, i, w) ==
  IF ~d.st[i].inner THEN [d |-> d, w |-> w, rc |-> "ERROR"]
  ELSE
    LET d0 == [d EXCEPT !.st[i].inner = FALSE]
        result == IF w.alg = "NULL" THEN "ok" ELSE Outcome(d0, "flush")
        d1 == IF w.alg = "NULL" THEN d0 ELSE Popped(d0, "flush")
        x == IF w.buf = << >> THEN RD(d1, "OK") ELSE inner_write(d1, i + 1, w.buf)
        w1 == [w EXCEPT !.buf = << >>]
    IN IF x.rc # "OK" THEN [d |-> x.d, w |-> w, rc |-> "ERROR"]
       ELSE IF result = "writezero"
       THEN flush_writer([x.d EXCEPT !.st[i].inner = TRUE], i, w1)
       ELSE IF result = "error"
       THEN LET r == restart(x.d, i)
            IN IF r.rc # "OK" THEN [d |-> r.d, w |-> w1, rc |-> "ERROR"]
               ELSE [d |-> [r.d EXCEPT !.st[i].inner = TRUE], w |-> w1, rc |-> "OK"]
       ELSE [d |-> [x.d EXCEPT !.st[i].inner = TRUE], w |-> w1, rc |-> "OK"]

\* InnerDecompressor::write.
write(d, i, data) ==
  LET s == d.st[i] IN
  IF s.passthrough
  THEN IF s.inner THEN inner_write(d, i + 1, data) ELSE RD(d, "OK")
  ELSE IF s.writer # NoWriter
  THEN LET w == s.writer
           d0 == [d EXCEPT !.st[i].writer = NoWriter]
           result == IF w.alg = "NULL" THEN "zero" ELSE Outcome(d0, "write")
           d1 == IF w.alg = "NULL" THEN d0 ELSE Popped(d0, "write")
       IN CASE result = "ok" ->
                 RD([d1 EXCEPT !.st[i].writer =
                       [w EXCEPT !.buf = @ \o Decoded(i, w.alg, data)]], "OK")
            [] result = "zero" -> RD([d1 EXCEPT !.st[i].writer = w], "OK")
            [] result = "writezero" ->
                 LET f == flush_writer(d1, i, w)
                 IN IF f.rc # "OK" THEN RD(f.d, "ERROR")
                    ELSE write([f.d EXCEPT !.st[i].writer = f.w], i, data)
            [] OTHER ->
                 LET r == restart(d1, i)
                 IN IF r.rc # "OK" THEN try_passthrough(r.d, i, data)
                    ELSE write(r.d, i, data)
  ELSE RD(d, "ERROR")

\* InnerDecompressor::flush: flush the decoder, then the next stage.
RECURSIVE flush(_, _)
flush(d, i) ==
  IF i > Len(d.st) THEN RD(d, "OK")
  ELSE
    LET s == d.st[i]
        f == flush_writer([d EXCEPT !.st[i].writer = NoWriter], i, s.writer)
        d1 == IF s.writer = NoWriter THEN d ELSE [f.d EXCEPT !.st[i].writer = f.w]
    IN IF s.writer # NoWriter /\ f.rc # "OK" THEN RD(f.d, "ERROR")
       ELSE IF d1.st[i].inner THEN flush(d1, i + 1) ELSE RD(d1, "OK")

\* What a call starts with: the answers o of the decoders and the callback,
\* and nothing noted yet of what the call does (input: the data given;
\* delivered: the slices the callback took; refused: the stages refused a
\* restart; failing: the data try_passthrough was given, by stage).
Called(d, data, o) ==
  [d EXCEPT !.o = o, !.input = data, !.delivered = << >>, !.refused = {},
            !.failing = {}]

\* Decompressor::decompress: all of the data is written to the first
\* stage, then the chain is flushed.
decompress(d, data, o) ==
  LET r == inner_write(Called(d, data, o), 1, data)
  IN IF r.rc # "OK" THEN r ELSE flush(r.d, 1)

\* InnerDecompressor::finish: flush and end the decoder, hand what it
\* still held to the next stage and finish that one; the callback is told
\* that the data has ended. The stage gives up its decoder and the stages
\* after it.
RECURSIVE finish(_, _)
finish(d, i) ==
  IF i > Len(d.st)
  THEN RD(Popped(d, "callback"), IF Outcome(d, "callback") = "error" THEN "ERROR" ELSE "OK")
  ELSE
    LET s == d.st[i]
        f == flush_writer([d EXCEPT !.st[i].writer = NoWriter], i, s.writer)
        result == IF s.writer.alg = "NULL" THEN "ok" ELSE Outcome(f.d, "flush")
        d1 == IF s.writer = NoWriter THEN d
              ELSE IF s.writer.alg = "NULL" THEN f.d ELSE Popped(f.d, "flush")
    IN IF s.writer # NoWriter /\ f.rc # "OK" THEN RD(f.d, "ERROR")
       ELSE IF s.writer # NoWriter /\ result = "error" THEN RD(d1, "ERROR")
       ELSE IF d1.st[i].inner THEN finish([d1 EXCEPT !.st[i].inner = FALSE], i + 1)
       ELSE RD(d1, "OK")

NoOutcomes == [write |-> << >>, flush |-> << >>, callback |-> << >>]

\* Decompressor::callback: a chain that is the callback alone.
callback ==
  [st |-> << >>, o |-> NoOutcomes, input |-> << >>, delivered |-> << >>,
   refused |-> {}, failing |-> {}, finished |-> FALSE]

\* prepend putting the new stage behind the stages there are.
prepend_behind(d, encoding, options) ==
  [d EXCEPT !.st = @ \o <<InnerDecompressor_new(encoding, options)>>]

\* Decompressor::prepend: a new stage in front of the chain.
prepend(d, encoding, options) ==
  [d EXCEPT !.st = <<InnerDecompressor_new(encoding, options)>> \o @]

\* Decompressor::new_with_callback.
new_with_callback(encoding, options) == prepend(callback, encoding, options)

\* connp is the connection parser, scn the connection it reads, inPos and
\* outPos the bytes of each direction that the caller has got rid of. op,
\* ret and trace describe the last call: which entry point, the stream
\* state it returned, the parser states it entered, and how many bytes of
\* its chunk it left unconsumed: the length of the chunk less what
\* request_data_consumed() or response_data_consumed() reports, which is the
\* read cursor of the chunk. overcount is the number of bytes by which the
\* consume cursor of the outbound chunk ended ahead of its read cursor.
\* failed holds the data entry points that have returned ERROR to the caller.
\* decompressor is the decompression chain of a response body.
VARIABLES connp, scn, inPos, outPos, closed, op, ret, trace, unconsumed, overcount,
          failed, decompressor

\* The configurations a connection is read with: callbacks that fail are
\* registered for one connection only.
FailingHooks ==
  {[hook |-> "request_line", rc |-> "STOP"],
   [hook |-> "request_line", rc |-> "ERROR"],
   [hook |-> "request_header_data", rc |-> "ERROR"]}
HookConfigs(s) == IF Scenarios[s].inb = RequestWithLength0 THEN FailingHooks ELSE {NoHook}

vars ==
  <<connp, scn, inPos, outPos, closed, op, ret, trace, unconsumed, overcount, failed,
    decompressor>>

Init ==
  /\ scn \in 1..Len(Scenarios)
  /\ connp \in {[NewConnp EXCEPT !.cfg = h] : h \in HookConfigs(scn)}
  /\ inPos = 0
  /\ outPos = 0
  /\ closed = FALSE
  /\ op = "open"
  /\ ret = "NONE"
  /\ trace = <<>>
  /\ unconsumed = 0
  /\ overcount = 0
  /\ failed = {}
  /\ decompressor = callback

\* A call that never returns leaves the caller stuck in it.
Stuck == ret = "NORETURN"

\* The caller hands the next inbound bytes to req_data. When the call
\* returns DATA_OTHER the caller keeps the bytes that were not consumed and
\* offers them again later.
ReqData ==
  /\ ~Stuck
  /\ ~closed
  /\ \E n \in ChunkLens(Len(Scenarios[scn].inb) - inPos) \cup EmptyChunks(scn) :
    \E r \in {req_data(connp, SubSeq(Scenarios[scn].inb, inPos + 1, inPos + n))} :
         /\ connp' = Returned(r.c)
         /\ ret' = r.rc
         /\ trace' = r.c.in_trace
         /\ unconsumed' = n - r.c.in_pos
         /\ overcount' = 0
         /\ inPos' = IF r.rc = "DATA_OTHER" THEN inPos + r.c.in_pos ELSE inPos + n
         /\ op' = "req_data"
         /\ failed' = IF r.rc = "ERROR" THEN failed \cup {"req_data"} ELSE failed
         /\ UNCHANGED <<scn, outPos, closed, decompressor>>

\* The caller hands the next outbound bytes to htp_connp_res_data.
ResData ==
  /\ ~Stuck
  /\ ~closed
  /\ \E n \in ChunkLens(Len(Scenarios[scn].outb) - outPos) \cup EmptyChunks(scn) :
    \E r \in {htp_connp_res_data(connp, SubSeq(Scenarios[scn].outb, outPos + 1,
                                                outPos + n))} :
         /\ connp' = Returned(r.c)
         /\ ret' = r.rc
         /\ trace' = r.c.out_trace
         /\ unconsumed' = n - r.c.out_current_read_offset
         /\ overcount' = r.c.out_current_consume_offset - r.c.out_current_read_offset
         /\ outPos' = IF r.rc = "DATA_OTHER"
                      THEN outPos + r.c.out_current_read_offset ELSE outPos + n
         /\ op' = "res_data"
         /\ failed' = IF r.rc = "ERROR" THEN failed \cup {"res_data"} ELSE failed
         /\ UNCHANGED <<scn, inPos, closed, decompressor>>

\* The caller closes the connection; nothing is fed to it afterwards.
Close ==
  /\ ~Stuck
  /\ ~closed
  /\ \E r \in {close(connp)} :
        /\ connp' = Returned(r.c)
        /\ ret' = r.in_rc
        /\ trace' = r.c.in_trace \o r.c.out_trace
        /\ unconsumed' = 0
        /\ overcount' = 0
  /\ op' = "close"
  /\ closed' = TRUE
  /\ UNCHANGED <<scn, inPos, outPos, failed, decompressor>>

Next == ReqData \/ ResData \/ Close

Spec == Init /\ [][Next]_vars

\* ------------------------------------------------------------------------
\* Properties
\* ------------------------------------------------------------------------

\* The transactions of the connection, by index; they are only ever added.
TxIds == 1..Len(connp.txs)

\* C1: request_progress and response_progress of every transaction never
\* decrease, whatever the interleaving of inbound calls, outbound calls and
\* close.
C1_ProgressNeverDecreases ==
  [][\A i \in TxIds :
       /\ connp'.txs[i].request_progress >= connp.txs[i].request_progress
       /\ connp'.txs[i].response_progress >= connp.txs[i].response_progress]_vars

\* C2: once a data entry point has returned ERROR, every later call of the
\* same entry point returns ERROR.
C2_ErrorIsPermanent == [][op' \in failed => ret' = "ERROR"]_vars

\* Number of bytes in a buffer that may be absent.
Held(buf) == IF buf = None THEN 0 ELSE Len(buf)

\* C3: the bytes a direction holds in its partial-line buffers, the rollover
\* buffer plus the pending header, never exceed the field limit.
C3_BufferedWithinFieldLimit ==
  /\ Held(connp.in_buf) + Held(connp.in_header) <= FieldLimit
  /\ Held(connp.out_buf) + Held(connp.out_header) <= FieldLimit

\* What the callbacks saw and the transactions hold after a call.
Observed(c) == [hooks |-> c.hooks, txs |-> c.txs]

\* C4: a direction's bytes fed in several calls produce the same sequence
\* of hook invocations and the same transactions as the same bytes fed in
\* one call. A stream still OPEN has had no call yet.
C4_ChunkingInvariant ==
  /\ (connp.out_status = "OPEN" /\ op = "req_data"
        /\ inPos = Len(Scenarios[scn].inb))
       => Observed(connp) = Observed(req_data(NewConnp, Scenarios[scn].inb).c)
  /\ (connp.in_status = "OPEN" /\ op = "res_data"
        /\ outPos = Len(Scenarios[scn].outb))
       => Observed(connp) = Observed(htp_connp_res_data(NewConnp, Scenarios[scn].outb).c)

\* The bytes of each direction handed to the parser so far.
InFed == Take(Scenarios[scn].inb, inPos)
OutFed == Take(Scenarios[scn].outb, outPos)

\* buf holds the last bytes of fed.
IsTail(buf, fed) ==
  /\ Held(buf) <= Len(fed)
  /\ Held(buf) > 0 => buf = Drop(fed, Len(fed) - Len(buf))

\* C5: after a data call that asked for more data, the bytes the call
\* consumed are the bytes it was fed, its consume cursor stands where its
\* read cursor stands (no byte was consumed twice), and the direction's
\* buffer holds the last bytes fed, those not parsed yet: consumed and
\* buffered bytes add up to the bytes fed.
C5_BytesAccounted ==
  ret = "DATA" =>
    /\ unconsumed = 0
    /\ overcount = 0
    /\ op = "req_data" => IsTail(connp.in_buf, InFed)
    /\ op = "res_data" => IsTail(connp.out_buf, OutFed)

\* The method of the request of transaction tx.
MethodOf(tx) == connp.txs[tx].request_method_number

\* The last inbound call ended in CONNECT_CHECK, with the headers of a
\* CONNECT request, and is suspended waiting for the response.
SuspendedOnConnect ==
  /\ op = "req_data"
  /\ trace # <<>>
  /\ trace[Len(trace)][1] = "CONNECT_CHECK"
  /\ MethodOf(trace[Len(trace)][2]) = "CONNECT"
  /\ connp.in_state = "CONNECT_WAIT_RESPONSE"

\* An inbound call went through CONNECT_CHECK at step i of its trace for a
\* request that is no CONNECT, and went on to BODY_DETERMINE.
WentOnToBody(i) ==
  /\ MethodOf(trace[i][2]) # "CONNECT"
  /\ i < Len(trace)
  /\ trace[i + 1][1] = "BODY_DETERMINE"

\* The steps of the last inbound call at which it entered CONNECT_CHECK.
ConnectChecks ==
  IF op = "req_data" THEN {i \in 1..Len(trace) : trace[i][1] = "CONNECT_CHECK"} ELSE {}

\* C6 as stated: after the headers of a CONNECT request the inbound machine
\* is in CONNECT_WAIT_RESPONSE and the call returns DATA_OTHER; after the
\* headers of any other request it goes to BODY_DETERMINE.
C6_ConnectSuspendsWithDataOther ==
  \A i \in ConnectChecks :
    \/ WentOnToBody(i)
    \/ i = Len(trace) /\ SuspendedOnConnect /\ ret = "DATA_OTHER"

\* C6 amended: after the headers of a CONNECT request the inbound machine is
\* in CONNECT_WAIT_RESPONSE, and the call returns DATA_OTHER when bytes of
\* its chunk are left unconsumed and DATA when the chunk ended with the
\* headers; after the headers of any other request it goes to
\* BODY_DETERMINE.
C6_ConnectSuspends ==
  \A i \in ConnectChecks :
    \/ WentOnToBody(i)
    \/ /\ i = Len(trace)
       /\ SuspendedOnConnect
       /\ ret = IF unconsumed > 0 THEN "DATA_OTHER" ELSE "DATA"

\* A CONNECT request whose headers end its chunk: the call returns DATA.
C6_Witness == SuspendedOnConnect /\ ret = "DATA" /\ unconsumed = 0

\* The inbound machine waits for the response to a CONNECT request.
Waiting == connp.in_state = "CONNECT_WAIT_RESPONSE"

\* The outbound machine has read the response line of the transaction the
\* inbound machine is working on.
ResponseLineReached == connp.txs[connp.in_tx].response_progress > HTP_RESPONSE_LINE

\* An inbound call that consumes and parses nothing and goes on waiting.
StaysWaiting ==
  /\ connp'.in_state = "CONNECT_WAIT_RESPONSE"
  /\ ret' = "DATA_OTHER"
  /\ inPos' = inPos
  /\ connp'.in_buf = connp.in_buf
  /\ connp'.txs = connp.txs
  /\ connp'.hooks = connp.hooks

Accepted ==
  /\ connp.in_status # "TUNNEL"
  /\ \/ connp.in_state = "CONNECT_PROBE_DATA"
     \/ /\ Waiting
        /\ ResponseLineReached
        /\ connp.txs[connp.in_tx].response_status_number \in 200..299

\* The inbound bytes the probe has in front of it, and their first line.
Pending == connp.in_buf \o Drop(Scenarios[scn].inb, inPos)
ProbedLine == take_till_lf_null(Pending)

\* The inbound call of this step holds the end of the probed line.
ProbeDecided ==
  /\ op' = "req_data"
  /\ ProbedLine.ok
  /\ \/ ret' = "DATA_OTHER"
     \/ Len(ProbedLine.line) <= Len(connp.in_buf) + (inPos' - inPos)

\* The probed line starts with the name of a known method.
ProbedMethodKnown ==
  convert_to_method(take_not_is_space(take_is_space(ProbedLine.line).rest).taken)
    # "UNKNOWN"

\* Both directions are in TUNNEL status after the step.
BothTunnel == connp'.in_status = "TUNNEL" /\ connp'.out_status = "TUNNEL"

\* C8 as stated: once the response to a CONNECT request has a status in
\* 200..299, the inbound call that looks at the bytes after the request
\* leaves both directions in TUNNEL status.
C8_TunnelAfterAccept ==
  [][(Accepted /\ ProbeDecided) => BothTunnel]_vars

\* C8 amended: once the response to a CONNECT request has a status in
\* 200..299 the inbound machine probes the next inbound line. If the line
\* does not start with a known method both directions enter TUNNEL status;
\* if it does, the CONNECT request completes and neither direction enters
\* TUNNEL; until the line is complete the machine stays in
\* CONNECT_PROBE_DATA.
C8_TunnelAfterProbe ==
  [][(Accepted /\ op' = "req_data") =>
       IF ~ProbeDecided
       THEN /\ connp'.in_state = "CONNECT_PROBE_DATA"
            /\ ret' = "DATA"
            /\ connp'.in_status # "TUNNEL" /\ connp'.out_status # "TUNNEL"
       ELSE IF ProbedMethodKnown
       THEN /\ connp'.txs[connp.in_tx].request_progress = HTP_REQUEST_COMPLETE
            /\ connp'.in_status # "TUNNEL" /\ connp'.out_status # "TUNNEL"
       ELSE ret' = "TUNNEL" /\ BothTunnel]_vars

\* An accepted CONNECT whose following bytes are no request: the inbound
\* call returned TUNNEL from the probe, with both directions in TUNNEL.
C8_Witness ==
  /\ op = "req_data"
  /\ ret = "TUNNEL"
  /\ connp.in_state = "CONNECT_PROBE_DATA"
  /\ connp.txs[connp.in_tx].request_method_number = "CONNECT"
  /\ connp.txs[connp.in_tx].response_status_number \in 200..299
  /\ connp.in_status = "TUNNEL" /\ connp.out_status = "TUNNEL"

\* C9: a data call on a direction whose status is TUNNEL returns TUNNEL and
\* the caller moves on past its bytes; the call leaves the parser, the
\* transactions and the record of the hooks as they were.
C9_TunnelPassesThrough ==
  [][/\ (connp.in_status = "TUNNEL" /\ op' = "req_data")
          => (ret' = "TUNNEL" /\ inPos' > inPos /\ connp' = connp)
     /\ (connp.out_status = "TUNNEL" /\ op' = "res_data")
          => (ret' = "TUNNEL" /\ outPos' > outPos /\ connp' = connp)]_vars

\* Transaction i is a CONNECT request whose response has status 407.
Is407Connect(c, i) ==
  /\ c.txs[i].request_method_number = "CONNECT"
  /\ c.txs[i].response_status_number = 407

\* The inbound machine waits on a CONNECT request whose response line has
\* been read and has status 407.
Refused407 ==
  /\ Waiting
  /\ ResponseLineReached
  /\ Is407Connect(connp, connp.in_tx)

\* C10: when the response to a CONNECT request has status 407, the next
\* inbound call leaves the wait for the end of the request, without probing
\* and with a return code other than TUNNEL, and consumes bytes; and no
\* direction is in TUNNEL status, and the inbound machine does not probe,
\* while a transaction is a CONNECT answered by a 407.
C10_ResumesAfter407 ==
  [][/\ (Refused407 /\ op' = "req_data")
          => /\ trace' # << >>
             /\ trace'[1] = <<"FINALIZE", connp.in_tx>>
             /\ ret' = "DATA"
             /\ unconsumed' = 0
             /\ connp'.in_state \notin {"CONNECT_WAIT_RESPONSE", "CONNECT_PROBE_DATA"}
     /\ (\E i \in 1..Len(connp'.txs) : Is407Connect(connp', i))
          => /\ connp'.in_status # "TUNNEL"
             /\ connp'.out_status # "TUNNEL"
             /\ connp'.in_state # "CONNECT_PROBE_DATA"]_vars

\* An inbound call that found the inbound machine waiting on a CONNECT
\* answered by a 407, and went on to the end of the request.
C10_Witness ==
  /\ op = "req_data"
  /\ ret = "DATA"
  /\ trace # << >>
  /\ trace[1] = <<"FINALIZE", 1>>
  /\ connp.txs # << >>
  /\ Is407Connect(connp, 1)
  /\ connp.in_status # "TUNNEL" /\ connp.out_status # "TUNNEL"

\* The inbound machine waits on a CONNECT request whose response line has
\* been read, with a status that is neither in 200..299 nor 407.
RefusedOther ==
  /\ Waiting
  /\ connp.in_status # "TUNNEL"
  /\ ResponseLineReached
  /\ MethodOf(connp.in_tx) = "CONNECT"
  /\ connp.txs[connp.in_tx].response_status_number \notin (200..299) \cup {407}

\* The callbacks of the request body data hook that have run for
\* transaction tx of parser c.
BodyDataCalls(c, tx) ==
  Len(SelectSeq(c.hooks.request, LAMBDA h : h = <<"request_body_data", tx>>))

C12_DataOtherReportsTail ==
  ret = "DATA_OTHER" =>
    /\ unconsumed > 0
    /\ op = "req_data" => IsTail(connp.in_buf, InFed)
    /\ op = "res_data" => IsTail(connp.out_buf, OutFed)

\* The header fields of a message carry both a content length and the
\* chunked transfer coding. The traffic followed has no trailer fields, so
\* the header fields of a transaction are those of its header section.
BothLengths(hs) ==
  /\ HeaderIdx(hs, ContentLengthName) # 0
  /\ HeaderIdx(hs, TransferEncodingName) # 0
  /\ EqNoCase(hs[HeaderIdx(hs, TransferEncodingName)].value, Chunked)

\* The steps of the last call at which the body of a message with both
\* lengths was determined.
BothLengthsRequestSteps ==
  {i \in 1..Len(trace) : /\ trace[i][1] = "BODY_DETERMINE"
                         /\ BothLengths(connp.txs[trace[i][2]].request_headers)}
BothLengthsResponseSteps ==
  {i \in 1..Len(trace) : /\ trace[i][1] = "RES_BODY_DETERMINE"
                         /\ BothLengths(connp.txs[trace[i][2]].response_headers)}

\* The body determined at step i of the last call is read as chunks, and
\* the transaction is flagged.
FramedChunkedAndFlagged(i, next) ==
  /\ i < Len(trace)
  /\ trace[i + 1] = <<next, trace[i][2]>>
  /\ "REQUEST_SMUGGLING" \in connp.txs[trace[i][2]].flags

\* A response that has no body whatever its header fields say: the response
\* to a HEAD request, and the response that accepts a CONNECT.
BodilessResponse(tx) ==
  \/ MethodOf(tx) = "HEAD"
  \/ MethodOf(tx) = "CONNECT" /\ connp.txs[tx].response_status_number \in 200..299

\* C13 as stated: whenever the body of a message that carries both a
\* Content-Length and Transfer-Encoding: chunked is determined, in either
\* direction, the body is read as chunks and the transaction is flagged
\* REQUEST_SMUGGLING.
C13_BothLengthsChunked ==
  /\ \A i \in BothLengthsRequestSteps : FramedChunkedAndFlagged(i, "BODY_CHUNKED_LENGTH")
  /\ \A i \in BothLengthsResponseSteps : FramedChunkedAndFlagged(i, "RES_BODY_CHUNKED_LENGTH")

\* C13, amended: the same, except for the responses that have no body
\* whatever their header fields say; and a request with both is marked as
\* chunked and flagged once its headers are complete.
C13_BothLengthsChunkedUnlessBodiless ==
  /\ \A i \in BothLengthsRequestSteps : FramedChunkedAndFlagged(i, "BODY_CHUNKED_LENGTH")
  /\ \A i \in BothLengthsResponseSteps :
       ~BodilessResponse(trace[i][2]) =>
         FramedChunkedAndFlagged(i, "RES_BODY_CHUNKED_LENGTH")
  /\ \A i \in 1..Len(trace) :
       (/\ trace[i][1] = "CONNECT_CHECK"
        /\ BothLengths(connp.txs[trace[i][2]].request_headers))
       => /\ connp.txs[trace[i][2]].request_transfer_coding = "CHUNKED"
          /\ "REQUEST_SMUGGLING" \in connp.txs[trace[i][2]].flags

\* The body of a response with both lengths, to a request that is no HEAD,
\* has been determined: it is read as chunks and the transaction is flagged.
C13_Witness ==
  /\ op = "res_data"
  /\ \E i \in BothLengthsResponseSteps :
       /\ ~BodilessResponse(trace[i][2])
       /\ FramedChunkedAndFlagged(i, "RES_BODY_CHUNKED_LENGTH")
  /\ connp.out_state = "RES_BODY_CHUNKED_LENGTH"

\* The last call was an inbound call that read a chunk length line which is
\* no number.
InvalidRequestChunkLength ==
  /\ op = "req_data"
  /\ \E i \in 1..Len(trace) : trace[i][1] = "BODY_CHUNKED_LENGTH"
  /\ connp.in_chunked_length = -1

\* The last call was an outbound call that read a chunk length line which is
\* no number.
InvalidResponseChunkLength ==
  /\ op = "res_data"
  /\ \E i \in 1..Len(trace) : trace[i][1] = "RES_BODY_CHUNKED_LENGTH"
  /\ connp.out_chunked_length = -1

\* C14 as stated: in either direction a chunk length line that is no number
\* is fatal: the call returns ERROR and the status of the direction is ERROR.
C14_InvalidChunkLengthFatal ==
  /\ InvalidRequestChunkLength => ret = "ERROR" /\ connp.in_status = "ERROR"
  /\ InvalidResponseChunkLength => ret = "ERROR" /\ connp.out_status = "ERROR"

\* C14, amended: an invalid chunk length is fatal in the inbound direction;
\* in the outbound direction the call goes on, the rest of the stream is the
\* body of the response, with the identity coding, until the stream closes.
C14_InvalidChunkLengthFatalInbound ==
  /\ InvalidRequestChunkLength => ret = "ERROR" /\ connp.in_status = "ERROR"
  /\ InvalidResponseChunkLength =>
       /\ ret = "DATA"
       /\ connp.out_status = "DATA"
       /\ connp.out_state = "RES_BODY_IDENTITY_STREAM_CLOSE"
       /\ connp.txs[connp.out_tx].response_transfer_coding = "IDENTITY"
       /\ trace[Len(trace)][1] = "RES_BODY_IDENTITY_STREAM_CLOSE"

\* An inbound call has just failed on the chunk length line "zz".
C14_Witness ==
  /\ InvalidRequestChunkLength
  /\ ret = "ERROR"
  /\ connp.in_state = "BODY_CHUNKED_LENGTH"
  /\ MethodOf(connp.in_tx) = "POST"

\* The states that read a request body of a declared length, and the state
\* each is left for.
BodyDataStates == {"BODY_IDENTITY", "BODY_CHUNKED_DATA"}
AfterBodyData(state) == IF state = "BODY_IDENTITY" THEN "FINALIZE" ELSE "BODY_CHUNKED_DATA_END"

\* What is left of the declared length of the body, or of the chunk.
BodyLeft(c) ==
  IF c.in_state = "BODY_IDENTITY" THEN c.in_body_data_left ELSE c.in_chunked_length

\* The states a call enters are in its trace; the state it starts in is
\* not. The inbound call of this step started in one of the body data states
\* with a chunk of n bytes, while left bytes of the declared length were
\* outstanding: it consumed the smaller of the two, handed that many bytes to
\* the body data callbacks, and left the state if and only if that completed
\* the declared length.
BodyDataStep(n, left) ==
  LET tx == connp.in_tx
      before == connp.txs[tx].request_entity_len
      after == connp'.txs[tx].request_entity_len
  IN IF n < left
     THEN /\ trace' = << >>
          /\ connp'.in_state = connp.in_state
          /\ BodyLeft(connp') = left - n
          /\ after = before + n
          /\ BodyDataCalls(connp', tx) = BodyDataCalls(connp, tx) + 1
          /\ ret' = "DATA" /\ unconsumed' = 0
     ELSE /\ trace' # << >>
          /\ trace'[1] = <<AfterBodyData(connp.in_state), tx>>
          /\ after >= before + left
          /\ n = left => /\ after = before + left
                         /\ BodyDataCalls(connp', tx) = BodyDataCalls(connp, tx) + 1
                         /\ ret' = "DATA" /\ unconsumed' = 0

\* C15: in BODY_IDENTITY and in BODY_CHUNKED_DATA each step consumes exactly
\* the smaller of the remaining declared length and the remaining input, and
\* the state is left exactly when the bytes handed to the body data
\* callbacks add up to the declared length; while the machine rests in
\* BODY_IDENTITY the bytes handed over and the bytes outstanding add up to
\* the content length.
C15_BodyDataConsumesMin ==
  [][/\ (/\ op' = "req_data"
         /\ connp.in_state \in BodyDataStates
         /\ connp.in_status \notin {"STOP", "ERROR", "TUNNEL"})
        => BodyDataStep(IF ret' = "DATA_OTHER" THEN inPos' - inPos + unconsumed'
                        ELSE inPos' - inPos, BodyLeft(connp))
     /\ connp'.in_state = "BODY_IDENTITY"
        => /\ connp'.in_body_data_left > 0
           /\ connp'.txs[connp'.in_tx].request_entity_len + connp'.in_body_data_left
                = connp'.in_content_length
     /\ connp'.in_state = "BODY_CHUNKED_DATA" => connp'.in_chunked_length > 0]_vars

\* An inbound call has just read the last byte of a body of two bytes, one
\* byte at a time, and left BODY_IDENTITY.
C15_Witness ==
  /\ op = "req_data"
  /\ trace # << >>
  /\ trace[1] = <<"FINALIZE", 1>>
  /\ inPos = Len(ReqLinePost \o HdrLength2 \o Eol \o Body2)
  /\ connp.in_content_length = 2
  /\ connp.txs[1].request_entity_len = 2
  /\ BodyDataCalls(connp, 1) = 2

\* The number of bytes of the chunk the call of this step was given.
InChunkLen == IF ret' = "DATA_OTHER" THEN inPos' - inPos + unconsumed' ELSE inPos' - inPos
OutChunkLen == IF ret' = "DATA_OTHER" THEN outPos' - outPos + unconsumed' ELSE outPos' - outPos

\* The rest of the line that is being read, in the bytes that come next.
NextInLine == take_till_lf(Drop(Scenarios[scn].inb, inPos))
NextOutLine == take_till_lf(Drop(Scenarios[scn].outb, outPos))

ResBodyDataCalls(c, tx) ==
  Len(SelectSeq(c.hooks.response, LAMBDA h : h = <<"response_body_data", tx>>))

\* The inbound call of this step starts in the chunked-length state and is
\* given the end of a chunk length line that says zero.
ZeroRequestChunk ==
  /\ op' = "req_data"
  /\ connp.in_state = "BODY_CHUNKED_LENGTH"
  /\ connp.in_status \notin {"STOP", "ERROR", "TUNNEL"}
  /\ NextInLine.ok
  /\ InChunkLen >= Len(NextInLine.line)
  /\ parse_chunked_length(connp.in_buf \o NextInLine.line) = 0

\* The same for the outbound direction.
ZeroResponseChunk ==
  /\ op' = "res_data"
  /\ connp.out_state = "RES_BODY_CHUNKED_LENGTH"
  /\ connp.out_status \notin {"STOP", "ERROR", "TUNNEL"}
  /\ NextOutLine.ok
  /\ OutChunkLen >= Len(NextOutLine.line)
  /\ parse_chunked_length((IF connp.out_buf = None THEN << >> ELSE connp.out_buf)
                          \o NextOutLine.line) = 0

\* C16: a chunk of length zero moves the machine to the headers state, to
\* read the trailers, and no body data callback runs for it.
C16_ZeroChunkToTrailers ==
  [][/\ ZeroRequestChunk =>
          /\ trace' # << >>
          /\ trace'[1] = <<"HEADERS", connp.in_tx>>
          /\ connp'.txs[connp.in_tx].request_progress >= HTP_REQUEST_TRAILER
          /\ InChunkLen = Len(NextInLine.line) =>
               /\ connp'.in_state = "HEADERS"
               /\ connp'.txs[connp.in_tx].request_progress = HTP_REQUEST_TRAILER
               /\ BodyDataCalls(connp', connp.in_tx) = BodyDataCalls(connp, connp.in_tx)
     /\ ZeroResponseChunk =>
          /\ trace' # << >>
          /\ trace'[1] = <<"RES_HEADERS", connp.out_tx>>
          /\ connp'.txs[connp.out_tx].response_progress >= HTP_RESPONSE_TRAILER
          /\ OutChunkLen = Len(NextOutLine.line) =>
               /\ connp'.out_state = "RES_HEADERS"
               /\ connp'.txs[connp.out_tx].response_progress = HTP_RESPONSE_TRAILER
               /\ ResBodyDataCalls(connp', connp.out_tx)
                    = ResBodyDataCalls(connp, connp.out_tx)]_vars

\* An outbound call has just read the line of the last chunk, "0", after a
\* chunk of two bytes: it waits for the trailers, and the body data callback
\* has run for the two bytes only.
C16_Witness ==
  /\ op = "res_data"
  /\ trace = << <<"RES_HEADERS", 1>> >>
  /\ connp.out_state = "RES_HEADERS"
  /\ connp.txs[1].response_progress = HTP_RESPONSE_TRAILER
  /\ connp.out_chunked_length = 0
  /\ ResBodyDataCalls(connp, 1) > 0

\* The transactions the call of this step created.
NewTxs == (Len(connp.txs) + 1)..Len(connp'.txs)

\* The call of this step entered the state `first` for transaction tx,
\* coming from the state `idle`.
StartedFrom(tx, first, idle, before) ==
  \E i \in 1..Len(trace') :
    /\ trace'[i] = <<first, tx>>
    /\ IF i = 1 THEN before = idle ELSE trace'[i - 1] = <<idle, 0>>

\* The inbound machine created the transactions of this step, each one in
\* IDLE, and it was given at least one byte for each.
CreatedByRequest ==
  /\ op' = "req_data"
  /\ \A tx \in NewTxs : StartedFrom(tx, "LINE", "IDLE", connp.in_state)
  /\ Len(connp'.txs) - Len(connp.txs) <= InChunkLen

\* The outbound machine created the transactions of this step, each one in
\* RES_IDLE for a response that no request was waiting for, and it was
\* given at least one byte for each.
CreatedByResponse ==
  /\ op' = "res_data"
  /\ \A tx \in NewTxs : StartedFrom(tx, "RES_LINE", "RES_IDLE", connp.out_state)
  /\ Len(connp'.txs) - Len(connp.txs) <= OutChunkLen
  /\ connp'.out_next_tx_index = Len(connp'.txs)

\* The connection is closed while the inbound machine is idle: its last
\* call, without bytes, returns DATA and creates nothing.
IdleWithoutBytes ==
  /\ op' = "close"
  /\ connp.in_state = "IDLE"
  /\ connp.in_status \notin {"STOP", "ERROR", "TUNNEL"}

\* C17 as stated: only the inbound machine creates transactions, in IDLE and
\* with at least one unread byte; in IDLE without bytes the call returns
\* DATA and creates no transaction.
C17_OnlyRequestsCreate ==
  [][/\ NewTxs # {} => CreatedByRequest
     /\ IdleWithoutBytes => ret' = "DATA" /\ NewTxs = {}]_vars

\* C17, amended: the outbound machine creates a transaction too, in RES_IDLE
\* with at least one unread byte, when no transaction is left to answer.
C17_RequestsAndStrayResponsesCreate ==
  [][/\ Len(connp'.txs) >= Len(connp.txs)
     /\ NewTxs # {} => CreatedByRequest \/ CreatedByResponse
     /\ IdleWithoutBytes => ret' = "DATA" /\ NewTxs = {}]_vars

\* Two requests have arrived in one chunk: the inbound call created a
\* transaction for each.
C17_Witness ==
  /\ op = "req_data"
  /\ Len(connp.txs) = 2
  /\ inPos = Len(Scenarios[scn].inb)
  /\ \E i \in 1..Len(trace) : trace[i] = <<"LINE", 1>>
  /\ \E i \in 1..Len(trace) : trace[i] = <<"LINE", 2>>

\* Two complete requests, a GET and a PUT, one right behind the other; and
\* two requests whose request lines are longer than half the field limit.
TwoRequests == ReqLineGetX \o Eol \o ReqLinePutX \o Eol
TwoLongRequests == ReqLineGet \o Eol \o ReqLineGet \o Eol

\* The inbound call of this step is the first call of the connection, and
\* it is given the two requests of stream in one chunk.
TwoRequestsInOneChunk(stream) ==
  /\ op' = "req_data"
  /\ Scenarios[scn].inb = stream
  /\ connp.txs = << >>
  /\ inPos = 0
  /\ InChunkLen = Len(stream)

\* The starts and the ends of requests that the callbacks have seen.
RequestStartsAndEnds(c) ==
  SelectSeq(c.hooks.request, LAMBDA h : h[1] \in {"request_start", "request_complete"})

\* C18: two complete requests that arrive back to back in one inbound chunk
\* make two transactions, in the order of arrival, and the connection is
\* flagged PIPELINED. Both requests are complete after the call when their
\* request lines are short.
C18_TwoRequestsPipelined ==
  [][/\ (TwoRequestsInOneChunk(TwoRequests) \/ TwoRequestsInOneChunk(TwoLongRequests))
        => /\ Len(connp'.txs) = 2
           /\ connp'.txs[1].request_method_number = "GET"
           /\ connp'.txs[1].request_progress = HTP_REQUEST_COMPLETE
           /\ connp'.txs[2].request_progress >= HTP_REQUEST_LINE
           /\ SubSeq(RequestStartsAndEnds(connp'), 1, 3) =
                << <<"request_start", 1>>, <<"request_complete", 1>>,
                   <<"request_start", 2>> >>
           /\ "PIPELINED" \in connp'.conn_flags
     /\ TwoRequestsInOneChunk(TwoRequests)
        => /\ connp'.txs[2].request_method_number = "PUT"
           /\ connp'.txs[2].request_progress = HTP_REQUEST_COMPLETE
           /\ RequestStartsAndEnds(connp') =
                << <<"request_start", 1>>, <<"request_complete", 1>>,
                   <<"request_start", 2>>, <<"request_complete", 2>> >>
           /\ ret' = "DATA"]_vars

\* The two requests have been read in one call.
C18_Witness ==
  /\ op = "req_data"
  /\ Scenarios[scn].inb = TwoRequests
  /\ inPos = Len(TwoRequests)
  /\ trace # << >>
  /\ trace[1] = <<"LINE", 1>>
  /\ trace[Len(trace)] = <<"IDLE", 0>>
  /\ Len(connp.txs) = 2
  /\ "PIPELINED" \in connp.conn_flags

\* ------------------------------------------------------------------------
\* C19: bytes behind a complete request
\* ------------------------------------------------------------------------

\* A request without a body and a line of white space behind it; a request
\* with its body and a line behind it that starts with no known method.
RequestThenBlank == ReqLineGetX \o Eol \o Blank
RequestThenJunk == ReqLinePost \o HdrLength2 \o Eol \o Body2 \o Junk

\* The inbound call of this step is given the last byte of the request of
\* stream, which ends behind extra more bytes, and every byte behind it: the
\* request ends in FINALIZE with the trailing bytes at hand.
EndsWithTrailingBytes(stream, extra) ==
  /\ op' = "req_data"
  /\ Scenarios[scn].inb = stream
  /\ connp.in_status \notin {"STOP", "ERROR", "TUNNEL"}
  /\ inPos < Len(stream) - extra
  /\ InChunkLen = Len(stream) - inPos

\* The body bytes a request declared: those of its Content-Length, none
\* when it has no body.
DeclaredBody(t) ==
  IF t.request_transfer_coding = "IDENTITY" THEN t.request_content_length ELSE 0

Unexpected(tx) == <<"REQUEST_BODY_UNEXPECTED", tx>>

\* C19 as stated: a transaction that was given more request body bytes than
\* its request declared has the warning REQUEST_BODY_UNEXPECTED.
C19_TrailingBytesFlagged ==
  \A tx \in 1..Len(connp.txs) :
    (/\ connp.txs[tx].request_transfer_coding \in {"NO_BODY", "IDENTITY"}
     /\ connp.txs[tx].request_entity_len > DeclaredBody(connp.txs[tx]))
    => Unexpected(tx) \in connp.logs

\* C19: in FINALIZE, a trailing line whose first word is no known method is
\* given to the request as body data, with the warning
\* REQUEST_BODY_UNEXPECTED; a trailing line of white space alone is given to
\* it as body data without a warning. Neither starts a transaction, and the
\* warning is only made for a transaction that was given body data.
C19_TrailingBytesAreBody ==
  [][/\ EndsWithTrailingBytes(RequestThenJunk, Len(Junk))
        => /\ Len(connp'.txs) = 1
           /\ connp'.txs[1].request_entity_len = Len(Body2) + Len(Junk)
           /\ connp'.logs = {Unexpected(1)}
           /\ connp'.txs[1].request_progress = HTP_REQUEST_COMPLETE
           /\ ret' = "DATA"
     /\ EndsWithTrailingBytes(RequestThenBlank, Len(Blank))
        => /\ Len(connp'.txs) = 1
           /\ connp'.txs[1].request_entity_len = Len(Blank)
           /\ BodyDataCalls(connp', 1) = 1
           /\ connp'.logs = {}
           /\ connp'.txs[1].request_progress = HTP_REQUEST_COMPLETE
           /\ ret' = "DATA"
     /\ \A tx \in 1..Len(connp'.txs) :
          Unexpected(tx) \in connp'.logs => connp'.txs[tx].request_entity_len > 0]_vars

\* The request and the line of white space behind it were read in one call:
\* the line was given to the request as body data, without a warning.
C19_Witness ==
  /\ op = "req_data"
  /\ Scenarios[scn].inb = RequestThenBlank
  /\ inPos = Len(RequestThenBlank)
  /\ trace # << >>
  /\ \E i \in 1..Len(trace) : trace[i] = <<"FINALIZE", 1>>
  /\ Len(connp.txs) = 1
  /\ connp.txs[1].request_entity_len = Len(Blank)
  /\ connp.logs = {}

\* ------------------------------------------------------------------------
\* C20: the end of a transaction
\* ------------------------------------------------------------------------

\* The completion callbacks that were called before the i-th one.
CompletedBefore(c, i) == {c.hooks.completion[j] : j \in 1..(i - 1)}

TransactionCompletions(c) ==
  {i \in 1..Len(c.hooks.completion) : c.hooks.completion[i][1] = "transaction_complete"}

\* C20: whenever transaction_complete is called for a transaction,
\* request_complete and response_complete were both called for it before,
\* and both of its halves are complete.
C20_TransactionCompleteAfterBoth ==
  \A i \in TransactionCompletions(connp) :
    LET tx == connp.hooks.completion[i][2]
    IN /\ <<"request_complete", tx>> \in CompletedBefore(connp, i)
       /\ <<"response_complete", tx>> \in CompletedBefore(connp, i)
       /\ connp.txs[tx].request_progress = HTP_REQUEST_COMPLETE
       /\ connp.txs[tx].response_progress = HTP_RESPONSE_COMPLETE

\* A transaction ended with its request: its response was complete before,
\* and transaction_complete was called right after request_complete.
C20_Witness ==
  \E i \in TransactionCompletions(connp) :
    LET tx == connp.hooks.completion[i][2]
    IN /\ i >= 3
       /\ connp.hooks.completion[i - 1] = <<"request_complete", tx>>
       /\ <<"response_complete", tx>> \in CompletedBefore(connp, i - 1)

\* ------------------------------------------------------------------------
\* C21: lifecycle callbacks
\* ------------------------------------------------------------------------

LifecycleHooks ==
  {"request_start", "request_line", "request_headers", "request_complete",
   "response_start", "response_line", "response_headers", "response_complete",
   "transaction_complete"}

\* How many times the callback name was called for transaction tx.
HookCalls(c, name, tx) ==
  LET log == IF name \in RequestHooks THEN c.hooks.request
             ELSE IF name \in ResponseHooks THEN c.hooks.response
             ELSE c.hooks.transaction
  IN Len(SelectSeq(log, LAMBDA h : h = <<name, tx>>))

TxComplete(c, tx) ==
  /\ tx <= Len(c.txs)
  /\ c.txs[tx].request_progress = HTP_REQUEST_COMPLETE
  /\ c.txs[tx].response_progress = HTP_RESPONSE_COMPLETE

\* C21 as stated: after every step each lifecycle callback has been called
\* at most once for each transaction, exactly once for a transaction both of
\* whose halves are complete, and closing the connection calls none again
\* for a transaction that was complete before.
C21_LifecycleCallbacksOnce ==
  [][\A tx \in 1..Len(connp'.txs) : \A name \in LifecycleHooks :
       /\ HookCalls(connp', name, tx) <= 1
       /\ TxComplete(connp', tx) => HookCalls(connp', name, tx) = 1
       /\ (op' = "close" /\ TxComplete(connp, tx))
            => HookCalls(connp', name, tx) = HookCalls(connp, name, tx)]_vars

\* ------------------------------------------------------------------------
\* C22: order of the callbacks of a direction
\* ------------------------------------------------------------------------

\* The place of a callback in the life of one half of a transaction.
HookRank(name) ==
  CASE name \in {"request_start", "response_start"} -> 1
    [] name \in {"request_line", "response_line"} -> 2
    [] name \in {"request_headers", "response_headers"} -> 3
    [] name \in {"request_body_data", "response_body_data"} -> 4
    [] name \in {"request_complete", "response_complete"} -> 5
    [] OTHER -> 0

\* The callbacks of log are in stream order: transaction by transaction, and
\* for one transaction start, line, headers, body data, complete (the
\* trailer callback has no place of its own in that order).
InStreamOrder(log) ==
  \A i \in 1..Len(log) : \A j \in (i + 1)..Len(log) :
    /\ log[i][2] <= log[j][2]
    /\ (log[i][2] = log[j][2] /\ HookRank(log[i][1]) > 0 /\ HookRank(log[j][1]) > 0)
         => HookRank(log[i][1]) <= HookRank(log[j][1])

\* C22: within a direction the callbacks are called in stream order.
C22_HooksInStreamOrder ==
  /\ InStreamOrder(connp.hooks.request)
  /\ InStreamOrder(connp.hooks.response)

\* ------------------------------------------------------------------------
\* C23, C24: callbacks that do not return OK
\* ------------------------------------------------------------------------

\* The first callback of the hook named in the configuration has been
\* called for transaction tx, and returned rc.
HookReturned(c, rc, tx) ==
  /\ c.cfg.rc = rc
  /\ HookCalls(c, c.cfg.hook, tx) > 0

\* How many times the second callback of the hook name was called for tx.
SecondCalls(c, name, tx) ==
  LET log == IF name \in RequestHooks THEN c.hooks.second.request
             ELSE IF name \in ResponseHooks THEN c.hooks.second.response
             ELSE c.hooks.second.transaction
  IN Len(SelectSeq(log, LAMBDA h : h = <<name, tx>>))

\* C23 as stated: when a callback has returned STOP for an event, the
\* callbacks registered after it are not called for that event, and the
\* parser goes on: the call does not leave the direction in STOP status, and
\* a later data call on the direction that is given bytes does not return
\* STOP.
C23_StopHaltsHooksNotParser ==
  [][\A tx \in 1..Len(connp'.txs) :
       HookReturned(connp', "STOP", tx)
       => /\ SecondCalls(connp', connp'.cfg.hook, tx) = 0
          /\ connp'.in_status # "STOP"
          /\ (op' = "req_data" /\ HookReturned(connp, "STOP", tx)) => ret' # "STOP"]_vars

\* How many times the first callback of the hook named in the
\* configuration has been called.
ConfiguredCalls(c) ==
  Len(SelectSeq(c.hooks.request \o c.hooks.response \o c.hooks.transaction,
                LAMBDA h : h[1] = c.cfg.hook))

\* A callback returned ERROR during the call of this step.
HookFailedInCall ==
  /\ connp.cfg.rc = "ERROR"
  /\ ConfiguredCalls(connp') > ConfiguredCalls(connp)

\* C24 as stated: a data call during which a callback returns ERROR returns
\* ERROR and leaves the status of its direction at ERROR.
C24_HookErrorAbortsStream ==
  [][(op' = "req_data" /\ HookFailedInCall)
       => /\ ret' = "ERROR"
          /\ connp'.in_status = "ERROR"]_vars

\* ------------------------------------------------------------------------
\* C25: chunks of no bytes
\* ------------------------------------------------------------------------

\* The call of this step was given a chunk of no bytes on a direction that
\* was open and had not failed, stopped or become a tunnel.
EmptyInboundCall ==
  /\ op' = "req_data"
  /\ InChunkLen = 0
  /\ connp.in_status \in {"OPEN", "DATA", "DATA_OTHER"}
EmptyOutboundCall ==
  /\ op' = "res_data"
  /\ OutChunkLen = 0
  /\ connp.out_status \in {"OPEN", "DATA", "DATA_OTHER"}

\* C25 as stated: a data call that is given no bytes on a stream that is not
\* closed returns DATA.
C25_EmptyInputReturnsData ==
  [][(EmptyInboundCall \/ EmptyOutboundCall) => ret' = "DATA"]_vars

\* ------------------------------------------------------------------------
\* C26: the CLOSED status
\* ------------------------------------------------------------------------

\* C26 as stated: close gives CLOSED to the status of each direction that
\* has not failed, and a status that is CLOSED stays CLOSED in every step.
C26_ClosedIsTerminal ==
  [][/\ (op' = "close" /\ connp.in_status # "ERROR") => connp'.in_status = "CLOSED"
     /\ (op' = "close" /\ connp.out_status # "ERROR") => connp'.out_status = "CLOSED"
     /\ connp.in_status = "CLOSED" => connp'.in_status = "CLOSED"
     /\ connp.out_status = "CLOSED" => connp'.out_status = "CLOSED"]_vars

\* ---- Repeated headers ----

\* The header lines of one message, given one after the other to the
\* header processor of its direction: one name in two spellings, and
\* Content-Length.
HeaderLines ==
  {<<"A", ":", "x">>, <<"a", ":", "x">>, ContentLengthName \o <<":", "0">>}

\* The number of header lines a message is given.
MaxHeaderLines == 68

\* A connection with one transaction whose headers are being read.
HeaderConnp == [create_tx(NewConnp) EXCEPT !.in_tx = 1, !.out_tx = 1]

HeaderInit ==
  /\ connp = HeaderConnp
  /\ scn = 1
  /\ inPos = 0
  /\ outPos = 0
  /\ closed = FALSE
  /\ op = "open"
  /\ ret = "NONE"
  /\ trace = << >>
  /\ unconsumed = 0
  /\ overcount = 0
  /\ failed = {}
  /\ decompressor = callback

\* One more header line of the request; inPos counts the lines.
RequestHeaderLine ==
  /\ op \in {"open", "request_header"}
  /\ inPos < MaxHeaderLines
  /\ \E line \in HeaderLines : connp' = process_request_header(connp, line)
  /\ inPos' = inPos + 1
  /\ op' = "request_header"
  /\ UNCHANGED <<scn, outPos, closed, ret, trace, unconsumed, overcount, failed, decompressor>>

\* One more header line of the response; outPos counts the lines.
ResponseHeaderLine ==
  /\ op \in {"open", "response_header"}
  /\ outPos < MaxHeaderLines
  /\ \E line \in HeaderLines : connp' = htp_process_response_header_generic(connp, line)
  /\ outPos' = outPos + 1
  /\ op' = "response_header"
  /\ UNCHANGED <<scn, inPos, closed, ret, trace, unconsumed, overcount, failed, decompressor>>

HeaderNext == RequestHeaderLine \/ ResponseHeaderLine

HeaderSpec == HeaderInit /\ [][HeaderNext]_vars

\* Table hs2 is table hs after header h was merged into the entry of its name.
Coalesced(hs, hs2, h) ==
  LET i == HeaderIdx(hs, h.name) IN
  /\ Len(hs2) = Len(hs)
  /\ \A j \in 1..Len(hs) : j # i => hs2[j] = hs[j]
  /\ hs2[i].name = hs[i].name
  /\ hs2[i].repeated
  /\ hs2[i].value = IF EqNoCase(h.name, ContentLengthName) THEN hs[i].value
                    ELSE hs[i].value \o <<",", SP>> \o h.value

\* The entry of h's name is already flagged and the transaction has counted
\* 64 repetitions.
RepetitionsExhausted(hs, reps, h) ==
  HeaderIdx(hs, h.name) # 0 /\ hs[HeaderIdx(hs, h.name)].repeated /\ reps >= 64

\* C27 as stated: a header line whose name is already in the table adds no
\* entry, flags the existing entry FIELD_REPEATED and, unless the name is
\* Content-Length, appends ", " and its value to the entry's value, for
\* every repetition however many occur.
C27_EveryRepetitionCoalesced ==
  [][\A line \in HeaderLines :
       LET h == ParseHeaderLine(line) IN
       /\ (/\ op' = "request_header"
           /\ connp'.txs = process_request_header(connp, line).txs
           /\ HeaderIdx(connp.txs[1].request_headers, h.name) # 0)
          => Coalesced(connp.txs[1].request_headers, connp'.txs[1].request_headers, h)
       /\ (/\ op' = "response_header"
           /\ connp'.txs = htp_process_response_header_generic(connp, line).txs
           /\ HeaderIdx(connp.txs[1].response_headers, h.name) # 0)
          => Coalesced(connp.txs[1].response_headers, connp'.txs[1].response_headers, h)]_vars

\* C27 amended: a header line whose name is already in the table adds no
\* entry; it flags the existing entry and is merged into it as long as the
\* entry was not flagged before or the transaction has counted fewer than
\* 64 repetitions; once 64 repetitions are counted, a line that repeats a
\* flagged entry is dropped and the table stays as it is.
C27_RepetitionsCoalescedUpTo64 ==
  [][\A line \in HeaderLines :
       LET h == ParseHeaderLine(line) IN
       /\ (/\ op' = "request_header"
           /\ connp'.txs = process_request_header(connp, line).txs
           /\ HeaderIdx(connp.txs[1].request_headers, h.name) # 0)
          => IF RepetitionsExhausted(connp.txs[1].request_headers,
                                     connp.txs[1].req_header_repetitions, h)
             THEN connp'.txs[1] = connp.txs[1]
             ELSE Coalesced(connp.txs[1].request_headers,
                            connp'.txs[1].request_headers, h)
       /\ (/\ op' = "response_header"
           /\ connp'.txs = htp_process_response_header_generic(connp, line).txs
           /\ HeaderIdx(connp.txs[1].response_headers, h.name) # 0)
          => IF RepetitionsExhausted(connp.txs[1].response_headers,
                                     connp.txs[1].res_header_repetitions, h)
             THEN connp'.txs[1] = connp.txs[1]
             ELSE Coalesced(connp.txs[1].response_headers,
                            connp'.txs[1].response_headers, h)]_vars

\* A request that repeated one name until 64 repetitions were counted and
\* then repeated it again: the entry holds 66 values and the later lines
\* are gone.
C27_Witness ==
  /\ op = "request_header"
  /\ inPos = MaxHeaderLines
  /\ connp.txs[1].req_header_repetitions = 64
  /\ Len(connp.txs[1].request_headers) = 1
  /\ connp.txs[1].request_headers[1].repeated
  /\ Len(connp.txs[1].request_headers[1].value) = 1 + 3 * 65

\* ---- The decompression chain on its own ----

\* The chunk of compressed data a call is given.
Chunk == << << >> >>

\* The most answers of one kind that the decoders give in one call.
MaxOutcomes == 2

\* The sequences of at most n answers out of S.
RECURSIVE SeqsUpTo(_, _)
SeqsUpTo(S, n) ==
  IF n = 0 THEN {<< >>}
  ELSE SeqsUpTo(S, n - 1) \cup
       {Append(q, x) : q \in {t \in SeqsUpTo(S, n - 1) : Len(t) = n - 1}, x \in S}

\* What the decoders answer to write and to flush and what the callback
\* answers during one call: a decoder takes the data (ok), takes none of it
\* (zero), finds its buffer full (writezero) or fails (error).
DecoderOutcomes ==
  [write : SeqsUpTo({"ok", "zero", "writezero", "error"}, MaxOutcomes),
   flush : SeqsUpTo({"writezero", "error"}, 1),
   callback : SeqsUpTo({"error"}, 1)]

\* The options of a chain: LZMA decoding is configured or is not.
OptionSets == {[lzma |-> TRUE], [lzma |-> FALSE]}

\* The encodings of the chains, first stage first: every chain of one stage
\* and some chains of two (layer_limit is 2).
Chains ==
  {<<e>> : e \in Encodings} \cup
  {<<"GZIP", "LZMA">>, <<"LZMA", "GZIP">>, <<"DEFLATE", "ZLIB">>, <<"ZLIB", "DEFLATE">>,
   <<"DEFLATE", "GZIP">>}

\* The chain as the caller builds it: the callback, then the stages from
\* the last to the first.
Built(encs, options) ==
  IF Len(encs) = 1 THEN new_with_callback(encs[1], options)
  ELSE prepend(new_with_callback(encs[2], options), encs[1], options)

DecompInit ==
  /\ connp = NewConnp
  /\ scn = 1
  /\ inPos = 0
  /\ outPos = 0
  /\ closed = FALSE
  /\ op = "open"
  /\ ret = "NONE"
  /\ trace = << >>
  /\ unconsumed = 0
  /\ overcount = 0
  /\ failed = {}
  /\ decompressor \in {Built(encs, options) : encs \in Chains, options \in OptionSets}

\* The caller has the next chunk of the body decompressed.
Decompress ==
  /\ ~decompressor.finished
  /\ \E o \in DecoderOutcomes :
       \E r \in {decompress(decompressor, Chunk, o)} :
          /\ decompressor' = [r.d EXCEPT !.o = NoOutcomes]
          /\ ret' = r.rc
  /\ op' = "decompress"
  /\ UNCHANGED <<connp, scn, inPos, outPos, closed, trace, unconsumed, overcount, failed>>

\* The caller tells the chain that the body has ended.
Finish ==
  /\ ~decompressor.finished
  /\ \E o \in DecoderOutcomes :
       \E r \in {finish(Called(decompressor, << >>, o), 1)} :
          /\ decompressor' = [r.d EXCEPT !.o = NoOutcomes, !.finished = TRUE]
          /\ ret' = r.rc
  /\ op' = "finish"
  /\ UNCHANGED <<connp, scn, inPos, outPos, closed, trace, unconsumed, overcount, failed>>

DecompNext == Decompress \/ Finish

DecompSpec == DecompInit /\ [][DecompNext]_vars

\* C28: each stage performs at most three restarts over its lifetime,
\* whatever the writes and the decoder errors: its counter of restarts and
\* the number of restarts it has performed never exceed three.
C28_AtMostThreeRestarts ==
  \A i \in 1..Len(decompressor.st) :
    /\ decompressor.st[i].restarts <= 3
    /\ Len(decompressor.st[i].restart_log) = decompressor.st[i].restarts

\* A stage that has restarted three times and was refused a fourth restart.
C28_Witness ==
  \E i \in 1..Len(decompressor.st) :
    /\ decompressor.st[i].restarts = 3
    /\ Len(decompressor.st[i].restart_log) = 3
    /\ decompressor.st[i].gave_up

\* The order of the algorithms as the restarts are to go through it.
RestartCycle ==
  [GZIP |-> "DEFLATE", DEFLATE |-> "ZLIB", ZLIB |-> "GZIP", LZMA |-> "DEFLATE"]

Delivered(d, x) == \E k \in 1..Len(d.delivered) : d.delivered[k] = x

\* Some byte the callback took during the last call was decoded by stage i.
DecodedBy(d, i) ==
  \E k \in 1..Len(d.delivered) : \E n \in 1..Len(d.delivered[k]) :
    \E l \in 1..Len(d.delivered[k][n]) : d.delivered[k][n][l][1] = i

\* C30: a stage that is refused a restart enters passthrough: after the
\* call the stage and every stage after it have the passthrough flag and
\* the data the stage failed on has reached the callback as the stage got
\* it; in every later call the stage still has the flag, nothing that
\* reaches the callback was decoded by it, and what is given to the first
\* stage reaches the callback unchanged.
C30_ExhaustedStagePassesThrough ==
  [][op' = "decompress" =>
       \A i \in 1..Len(decompressor.st) :
         /\ i \in decompressor'.refused =>
              /\ \A j \in i..Len(decompressor.st) : decompressor'.st[j].passthrough
              /\ \E f \in decompressor'.failing :
                   f[1] = i /\ Delivered(decompressor', f[2])
         /\ decompressor.st[i].gave_up =>
              /\ decompressor'.st[i].passthrough
              /\ ~DecodedBy(decompressor', i)
              /\ i = 1 => Delivered(decompressor', decompressor'.input)]_vars

\* The stages from stage i on that stage i can reach.
ReachFrom(d, i) == {j \in i..Len(d.st) : \A k \in i..(j - 1) : d.st[k].inner}

\* Some stage from stage i on has lost what follows it.
Broken(d, i) == \E k \in i..Len(d.st) : ~d.st[k].inner

\* C30 amended: a stage that is refused a restart while writing hands the
\* failing data on; when the rest of the chain takes it, the stage and every
\* stage it can reach have the passthrough flag and the data has reached
\* the callback as the stage got it (unless the chain has lost its end);
\* when the rest of the chain fails on it the flags of these stages are
\* cleared again and the call fails. A restart refused while flushing makes
\* the call fail and the stage lose what follows it. In a later call a
\* stage that was refused a restart and still has the flag decodes nothing,
\* and what is given to the first stage reaches the callback unchanged if
\* the call succeeds and the chain has not lost its end.
C30_PassthroughWhenInputTaken ==
  [][op' = "decompress" =>
       \A i \in 1..Len(decompressor.st) :
         /\ \A f \in decompressor'.failing : f[1] = i =>
              \/ /\ \A j \in ReachFrom(decompressor', i) : decompressor'.st[j].passthrough
                 /\ Delivered(decompressor', f[2]) \/ Broken(decompressor', i)
              \/ /\ ret' = "ERROR"
                 /\ \A j \in ReachFrom(decompressor', i) : ~decompressor'.st[j].passthrough
         /\ (i \in decompressor'.refused /\ \A f \in decompressor'.failing : f[1] # i) =>
              ret' = "ERROR" /\ ~decompressor'.st[i].inner
         /\ (/\ decompressor.st[i].gave_up
             /\ decompressor.st[i].passthrough
             /\ decompressor'.st[i].passthrough) =>
              /\ ~DecodedBy(decompressor', i)
              /\ (i = 1 /\ ret' = "OK" /\ ~Broken(decompressor', 1)) =>
                   Delivered(decompressor', decompressor'.input)]_vars

\* The first of two stages was refused a restart in the last call: both
\* stages have the flag and the callback has the data as it was given.
C30_Witness ==
  /\ op = "decompress"
  /\ ret = "OK"
  /\ Len(decompressor.st) = 2
  /\ decompressor.refused = {1}
  /\ decompressor.st[1].restarts = 3
  /\ decompressor.st[1].passthrough
  /\ decompressor.st[2].passthrough
  /\ ~decompressor.st[2].gave_up
  /\ Delivered(decompressor, decompressor.input)

\* The encodings the stages of chain d were made for, first stage first.
StageEncodings(d) == [k \in 1..Len(d.st) |-> d.st[k].encoding]

\* The chain is the one built for Content-Encoding: gzip, deflate: gzip is
\* prepended to the callback, then deflate.
GzipThenDeflatePrepended ==
  \E options \in OptionSets :
    StageEncodings(decompressor) =
      StageEncodings(prepend(prepend(callback, "GZIP", options), "DEFLATE", options))

\* The stage of chain d that was made for encoding e.
StageFor(d, e) == CHOOSE i \in 1..Len(d.st) : d.st[i].encoding = e

\* Every byte the callback took in the last call that both stages e1 and e2
\* decoded was decoded by the stage for e1 before the stage for e2.
DecodedInOrder(d, e1, e2) ==
  \A k \in 1..Len(d.delivered) : \A n \in 1..Len(d.delivered[k]) :
    LET t == d.delivered[k][n] IN
    \A a \in 1..Len(t) : \A b \in 1..Len(t) :
      (t[a][1] = StageFor(d, e2) /\ t[b][1] = StageFor(d, e1)) => b < a

\* C31 as stated: in the chain built by prepending gzip and then deflate,
\* the compressed bytes go through the gzip stage first, then through the
\* deflate stage, then to the callback.
C31_GzipStageFirst ==
  GzipThenDeflatePrepended => DecodedInOrder(decompressor, "GZIP", "DEFLATE")

\* C31 amended: in the chain built by prepending gzip and then deflate, the
\* deflate stage is the first stage and the gzip stage the second: the
\* compressed bytes go through the deflate stage first, then through the
\* gzip stage, then to the callback.
C31_DeflateStageFirst ==
  GzipThenDeflatePrepended =>
    /\ StageFor(decompressor, "DEFLATE") = 1
    /\ StageFor(decompressor, "GZIP") = 2
    /\ DecodedInOrder(decompressor, "DEFLATE", "GZIP")

\* The callback has taken bytes that the deflate stage decoded and the gzip
\* stage decoded after it.
C31_Witness ==
  /\ GzipThenDeflatePrepended
  /\ op = "decompress"
  /\ ret = "OK"
  /\ decompressor.delivered = << << << <<1, "DEFLATE">>, <<2, "GZIP">> >> >> >>

\* ---------------------------------------------------------------------
\* headers.rs: the header block parser (Parser), with side = Side::Request.
\*
\* A parser answers as nom's IResult does: Ok with the input that remains
\* and an output, Error (the next alternative may be tried), or Incomplete
\* (more input is needed; no alternative is tried).
POk(rest, out) == [k |-> "Ok", rest |-> rest, out |-> out]
PError == [k |-> "Error"]
PIncomplete == [k |-> "Incomplete"]

\* nom combinators: alt of two parsers, not, peek and complete, given the
\* answers of the parsers they wrap and the input they were run on.
alt(a, b) == IF a.k = "Error" THEN b ELSE a
not(r, i) == IF r.k = "Ok" THEN PError ELSE IF r.k = "Error" THEN POk(i, << >>) ELSE r
peek(r, i) == IF r.k = "Ok" THEN POk(i, r.out) ELSE r
complete(r) == IF r.k = "Incomplete" THEN PError ELSE r

\* The `?` of Rust and the sequencing of nom's tuple: what follows is
\* computed from an Ok answer; an Error or Incomplete answer is returned.
and_then(r, F(_)) == IF r.k = "Ok" THEN F(r) ELSE r

\* nom map, for the parsers whose bytes are given flags: (bytes, flags).
flagged(r, flags) ==
  IF r.k = "Ok" THEN POk(r.rest, [bytes |-> r.out, flags |-> flags]) ELSE r

\* nom map, for the parsers that end a value without a folding: (end, None).
unfolded(r) ==
  IF r.k = "Ok" THEN POk(r.rest, [end |-> r.out, fold |-> << >>]) ELSE r

\* nom bytes::complete::tag: the input starts with t, or Error.
complete_tag(t, i) ==
  IF Len(i) >= Len(t) /\ Take(i, Len(t)) = t THEN POk(Drop(i, Len(t)), t) ELSE PError

\* nom bytes::streaming::tag: Incomplete while the input is a proper prefix of t.
tag(t, i) ==
  IF Len(i) >= Len(t) THEN complete_tag(t, i)
  ELSE IF i = Take(t, Len(i)) THEN PIncomplete
  ELSE PError

\* nom bytes::streaming::take_till: the bytes before the first one in S;
\* Incomplete when the input holds no byte of S.
take_till(S, i) ==
  LET n == FirstIn(i, S)
  IN IF n = 0 THEN PIncomplete ELSE POk(Drop(i, n - 1), Take(i, n - 1))

\* nom bytes::streaming::take_till1: as take_till, Error when nothing is taken.
take_till1(S, i) ==
  LET n == FirstIn(i, S)
  IN IF n = 0 THEN PIncomplete
     ELSE IF n = 1 THEN PError
     ELSE POk(Drop(i, n - 1), Take(i, n - 1))

\* nom bytes::streaming::take_while: the longest prefix of bytes in S;
\* Incomplete when the input ends before a byte outside S.
take_while(S, i) ==
  LET n == FirstNotIn(i, S)
  IN IF n > Len(i) THEN PIncomplete ELSE POk(Drop(i, n - 1), Take(i, n - 1))

\* nom character::is_space and character::streaming::{space0, space1}.
nom_is_space(c) == c \in {SP, HT}

space0(i) == take_while({SP, HT}, i)

space1(i) ==
  LET n == FirstNotIn(i, {SP, HT})
  IN IF n > Len(i) THEN PIncomplete
     ELSE IF n = 1 THEN PError
     ELSE POk(Drop(i, n - 1), Take(i, n - 1))

\* The bytes header blocks are made of: a token byte, the colon, NUL, the
\* line ending bytes and a space.
HeaderBytes == {"k", ":", NUL, CR, LF, SP}

\* util.rs is_token: neither a control byte nor a separator.
is_token(c) == c \notin {NUL, CR, LF, HT, SP, ":"}

\* util.rs trimmed: the bytes without leading and trailing whitespace.
RECURSIVE trimmed(_)
trimmed(s) ==
  IF s # << >> /\ is_space(s[1]) THEN trimmed(Drop(s, 1))
  ELSE IF s # << >> /\ is_space(s[Len(s)]) THEN trimmed(Take(s, Len(s) - 1))
  ELSE s

Name_new(bytes, flags) == [name |-> trimmed(bytes), flags |-> flags]
Value_new(bytes, flags) == [value |-> trimmed(bytes), flags |-> flags]

Parser_new(side) == [side |-> side, complete |-> FALSE]
set_complete(p, c) == [p EXCEPT !.complete = c]

\* Parser::is_eol: a line feed; the response side also takes a CR.
is_eol(p, c) == c = LF \/ (p.side = "Response" /\ c = CR)

\* Parser::is_terminator
is_terminator(c) == c = LF

\* Parser::complete_eol_regular, request side: CR LF or LF.
complete_eol_regular(i) == alt(complete_tag(<<CR, LF>>, i), complete_tag(<<LF>>, i))

\* Parser::complete_eol_deformed, request side: LF CR CR LF before a line
\* ending, or LF CR before CR LF.
complete_eol_deformed(i) ==
  LET a == complete_tag(<<LF, CR, CR, LF>>, i)
      b == complete_tag(<<LF, CR>>, i)
  IN IF a.k = "Ok" /\ alt(complete_tag(<<LF>>, a.rest), complete_tag(<<CR, LF>>, a.rest)).k = "Ok"
     THEN POk(a.rest, [bytes |-> a.out, flags |-> {"DEFORMED_EOL"}])
     ELSE IF b.k = "Ok" /\ complete_tag(<<CR, LF>>, b.rest).k = "Ok"
     THEN POk(b.rest, [bytes |-> b.out, flags |-> {"DEFORMED_EOL"}])
     ELSE PError

\* Parser::complete_eol
complete_eol(i) ==
  alt(complete_eol_deformed(i), flagged(complete_eol_regular(i), {}))

\* folding_lws_special: a single CR, not before CR or LF, with the spaces
\* after it.
folding_lws_special(i) ==
  and_then(tag(<<CR>>, i), LAMBDA t :
    and_then(not(alt(tag(<<CR>>, t.rest), tag(<<LF>>, t.rest)), t.rest), LAMBDA n :
      and_then(space0(t.rest), LAMBDA s : POk(s.rest, Take(i, 1 + Len(s.out))))))

\* folding_lws
folding_lws(i) ==
  alt(flagged(space1(i), {"FOLDING"}),
      flagged(folding_lws_special(i), {"FOLDING_SPECIAL_CASE", "FOLDING"}))

\* Parser::eol: a line ending that does not start a folded line.
eol(i) ==
  and_then(complete_eol(i), LAMBDA e :
    and_then(not(folding_lws(e.rest), e.rest), LAMBDA n : e))

\* null: one NUL byte, with the NULL_TERMINATED flag.
null(i) == flagged(complete_tag(<<NUL>>, i), {"NULL_TERMINATED"})

\* Parser::null_or_eol and Parser::complete_null_or_eol
null_or_eol(i) == alt(null(i), eol(i))

complete_null_or_eol(i) == alt(null(i), complete_eol(i))

\* Parser::folding, request side: a line ending and the folding whitespace.
folding(i) ==
  and_then(complete_eol(i), LAMBDA e :
    and_then(folding_lws(e.rest), LAMBDA f :
      POk(f.rest, [end |-> [bytes |-> e.out.bytes, flags |-> e.out.flags \cup f.out.flags],
                   fold |-> <<f.out.bytes>>])))

\* Parser::complete_folding_or_terminator, request side. fold is << >> for
\* Option::None.
complete_folding_or_terminator(i) ==
  alt(complete(folding(i)), unfolded(complete_null_or_eol(i)))

\* Parser::streaming_folding_or_terminator, request side.
streaming_folding_or_terminator(i) ==
  alt(folding(i), unfolded(null_or_eol(i)))

\* Parser::folding_or_terminator
folding_or_terminator(p, i) ==
  IF p.complete THEN complete_folding_or_terminator(i)
  ELSE streaming_folding_or_terminator(i)

\* A value that ends at a NUL as well as at a line ending.
value_bytes_stops_at_nul(p, i) ==
  and_then(take_till({c \in HeaderBytes : is_eol(p, c) \/ c = NUL}, i), LAMBDA t :
    and_then(folding_or_terminator(p, t.rest), LAMBDA r :
      POk(r.rest, [value |-> t.out, end |-> r.out.end, fold |-> r.out.fold])))

\* The bytes without one trailing CR.
SansCr(bytes) ==
  IF bytes # << >> /\ bytes[Len(bytes)] = CR THEN Take(bytes, Len(bytes) - 1) ELSE bytes

\* Parser::value_bytes: the bytes before the line ending, without one
\* trailing CR, and what ends them: a line ending, a NUL or a folding.
value_bytes(p, i) ==
  and_then(take_till({c \in HeaderBytes : is_eol(p, c)}, i), LAMBDA t :
    and_then(folding_or_terminator(p, Drop(i, Len(SansCr(t.out)))), LAMBDA r :
      POk(r.rest, [value |-> SansCr(t.out), end |-> r.out.end, fold |-> r.out.fold])))

\* The loop of Parser::value, request side: the folded lines are joined to
\* the value with one space each.
RECURSIVE value_folded(_, _, _, _)
value_folded(p, i, val, flags) ==
  and_then(value_bytes(p, i), LAMBDA r :
    IF r.out.fold = << >>
    THEN POk(r.rest,
             Value_new((IF val # << >> THEN Append(val, SP) ELSE val) \o r.out.value,
                       flags \cup r.out.end.flags))
    ELSE value_folded(p, r.rest,
                      (IF val # << >> THEN Append(val, SP) ELSE val) \o r.out.value,
                      flags \cup r.out.end.flags))

\* Parser::value
value(p, i) ==
  and_then(value_bytes(p, i), LAMBDA r :
    IF r.out.fold # << >>
    THEN value_folded(p, r.rest, r.out.value, r.out.end.flags)
    ELSE POk(r.rest,
             Value_new(r.out.value,
                       r.out.end.flags \cup
                         (IF r.out.value = << >> THEN {"VALUE_EMPTY"} ELSE {}))))

\* token_chars: spaces, token bytes, spaces.
token_chars(i) ==
  and_then(space0(i), LAMBDA a :
    and_then(take_while({c \in HeaderBytes : is_token(c)}, a.rest), LAMBDA b :
      and_then(space0(b.rest), LAMBDA c :
        POk(c.rest, [leading |-> a.out, token |-> b.out, trailing |-> c.out]))))

\* separator_regular: a colon and the spaces after it.
separator_regular(i) ==
  and_then(complete_tag(<<":">>, i), LAMBDA a :
    and_then(space0(a.rest), LAMBDA b : POk(b.rest, <<a.out, b.out>>)))

\* Parser::separator, request side: the flags of the separator.
separator(p, i) == and_then(separator_regular(i), LAMBDA r : POk(r.rest, {}))

\* Parser::token_name
token_name(p, i) ==
  and_then(token_chars(i), LAMBDA t :
    and_then(peek(separator(p, t.rest), t.rest), LAMBDA s :
      POk(t.rest,
          [bytes |-> Take(i, Len(t.out.leading) + Len(t.out.token) + Len(t.out.trailing)),
           flags |-> IF t.out.token # << >>
                     THEN (IF t.out.leading # << >>
                           THEN {"NAME_LEADING_WHITESPACE"} ELSE {})
                          \cup (IF t.out.trailing # << >>
                                THEN {"NAME_TRAILING_WHITESPACE"} ELSE {})
                     ELSE {"NAME_EMPTY"}])))

\* Parser::non_token_name
non_token_name(p, i) ==
  and_then(
    alt(and_then(take_till({c \in HeaderBytes : c = ":" \/ is_terminator(c) \/ c = CR}, i),
                 LAMBDA a : and_then(peek(separator(p, a.rest), a.rest), LAMBDA s : a)),
        and_then(take_till({c \in HeaderBytes : c = ":" \/ is_terminator(c)}, i),
                 LAMBDA b : and_then(peek(separator(p, b.rest), b.rest), LAMBDA s : b))),
    LAMBDA r :
      flagged(r, {"NAME_NON_TOKEN_CHARS"} \cup
                 (IF r.out # << >>
                  THEN (IF nom_is_space(r.out[1])
                        THEN {"NAME_LEADING_WHITESPACE"} ELSE {})
                       \cup (IF nom_is_space(r.out[Len(r.out)])
                             THEN {"NAME_TRAILING_WHITESPACE"} ELSE {})
                  ELSE {"NAME_EMPTY"})))

\* Parser::name: a token name, else a name with other bytes.
name(p, i) ==
  and_then(alt(token_name(p, i), non_token_name(p, i)), LAMBDA r :
    POk(r.rest, Name_new(r.out.bytes, r.out.flags)))

\* Parser::header_with_colon
header_with_colon(p, i) ==
  and_then(name(p, i), LAMBDA n :
    and_then(separator(p, n.rest), LAMBDA s :
      and_then(value(p, s.rest), LAMBDA v :
        POk(v.rest, [name |-> [n.out EXCEPT !.flags = @ \cup s.out],
                     value |-> [v.out EXCEPT !.flags = @ \cup s.out]]))))

\* Parser::header_sans_colon: a line without a colon is a value with an
\* empty name.
header_sans_colon(p, i) ==
  and_then(not(complete_tag(<<CR, LF>>, i), i), LAMBDA n :
    and_then(take_till1({c \in HeaderBytes : c = ":" \/ is_terminator(c)}, i), LAMBDA t :
      and_then(complete_null_or_eol(Drop(i, Len(SansCr(t.out)))), LAMBDA r :
        POk(r.rest,
            [name |-> Name_new(<< >>, {"MISSING_COLON", "NAME_EMPTY"} \cup r.out.flags),
             value |-> Value_new(SansCr(t.out),
                                 {"MISSING_COLON", "NAME_EMPTY"} \cup r.out.flags)]))))

\* Parser::header
header(p, i) == alt(header_with_colon(p, i), header_sans_colon(p, i))

\* One turn of Parser::headers with the header h read from the input i: the
\* headers end at a NUL terminated value or at an empty line, and the input
\* that is no whole header is left to the caller.
RECURSIVE headers_next(_, _, _, _)
headers_next(p, i, out, h) ==
  IF h.k = "Ok"
  THEN IF "NULL_TERMINATED" \in h.out.value.flags
       THEN POk(h.rest, [headers |-> Append(out, h.out), eoh |-> TRUE])
       ELSE With(complete_eol(h.rest), LAMBDA e :
              IF e.k = "Ok"
              THEN POk(e.rest, [headers |-> Append(out, h.out), eoh |-> TRUE])
              ELSE headers_next(p, h.rest, Append(out, h.out), header(p, h.rest)))
  ELSE IF h.k = "Incomplete" THEN POk(i, [headers |-> out, eoh |-> FALSE])
  ELSE h

\* Parser::headers: the first header is needed; its Error or Incomplete is
\* the answer.
headers(p, i) ==
  and_then(header(p, i), LAMBDA h : headers_next(p, i, << >>, h))

\* ---------------------------------------------------------------------
\* The header block parser fed a block byte by byte: connp is the Parser,
\* trace the bytes it has been given and ret what headers() answers for them.

\* The number of bytes of a header block.
MaxInput == 5

ParserInit ==
  /\ connp = Parser_new("Request")
  /\ scn = 1
  /\ inPos = 0
  /\ outPos = 0
  /\ closed = FALSE
  /\ op = "open"
  /\ ret = headers(Parser_new("Request"), << >>)
  /\ trace = << >>
  /\ unconsumed = 0
  /\ overcount = 0
  /\ failed = {}
  /\ decompressor = callback

\* One more byte has arrived and the block is parsed again.
Feed ==
  /\ ~connp.complete
  /\ Len(trace) < MaxInput
  /\ \E b \in HeaderBytes :
       /\ trace' = Append(trace, b)
       /\ ret' = headers(connp, Append(trace, b))
  /\ op' = "feed"
  /\ UNCHANGED <<connp, scn, inPos, outPos, closed, unconsumed, overcount, failed,
                 decompressor>>

\* No more data is coming: the parser is set complete and parses the block.
SetComplete ==
  /\ ~connp.complete
  /\ connp' = set_complete(connp, TRUE)
  /\ ret' = headers(set_complete(connp, TRUE), trace)
  /\ op' = "set_complete"
  /\ UNCHANGED <<scn, inPos, outPos, closed, trace, unconsumed, overcount, failed,
                 decompressor>>

ParserNext == Feed \/ SetComplete

ParserSpec == ParserInit /\ [][ParserNext]_vars

\* ---------------------------------------------------------------------
\* C32: the request side and the NUL byte.

\* The headers parsed from the block and the bytes they were parsed from.
Parsed == IF ret.k = "Ok" THEN ret.out.headers ELSE << >>
Consumed == IF ret.k = "Ok" THEN Take(trace, Len(trace) - Len(ret.rest)) ELSE << >>

Nuls(s) == Cardinality({j \in 1..Len(s) : s[j] = NUL})

RECURSIVE NulsParsed(_)
NulsParsed(hs) ==
  IF hs = << >> THEN 0
  ELSE Nuls(hs[1].name.name) + Nuls(hs[1].value.value) + NulsParsed(Drop(hs, 1))

\* The first line of the block: the bytes before the first LF, without one
\* CR before it.
FirstLine ==
  LET l == Take(trace, FirstIn(trace, {LF}) - 1)
  IN IF l # << >> /\ l[Len(l)] = CR THEN Take(l, Len(l) - 1) ELSE l

NoCallbacks ==
  [h \in RequestHooks \cup ResponseHooks \cup {"transaction_complete"} |-> << >>]

\* htp_config.rs htp_config_register_response_complete and
\* htp_config_register_response_headers: the callback is added to the hook.
htp_config_register_response_complete(cfg, callback_fn) ==
  [cfg EXCEPT !["response_complete"] = Append(@, callback_fn)]

htp_config_register_response_headers(cfg, callback_fn) ==
  [cfg EXCEPT !["response_headers"] = Append(@, callback_fn)]

\* c_api/mod.rs htp_config_register_response_complete and
\* htp_config_register_response_headers: both call
\* htp_config::htp_config_register_response_complete.
c_api_htp_config_register_response_complete(cfg, callback_fn) ==
  htp_config_register_response_complete(cfg, callback_fn)

c_api_htp_config_register_response_headers(cfg, callback_fn) ==
  htp_config_register_response_complete(cfg, callback_fn)

\* hook.rs: the runs of the response hooks of connection c in which the
\* callback registered in cfg is called, a callback being called in every
\* run of a hook it is registered on.
Invocations(c, cfg, callback_fn) ==
  SelectSeq(c.hooks.response,
            LAMBDA h : \E k \in 1..Len(cfg[h[1]]) : cfg[h[1]][k] = callback_fn)

\* C33 as stated: a callback registered with the C API's
\* htp_config_register_response_headers is called when the response headers
\* of a transaction are complete: its calls are the runs of the
\* response_headers hook.
C33_CalledWhenResponseHeadersComplete ==
  Invocations(connp, c_api_htp_config_register_response_headers(NoCallbacks, "callback_fn"),
              "callback_fn")
    = SelectSeq(connp.hooks.response, LAMBDA h : h[1] = "response_headers")

\* ---------------------------------------------------------------------
\* The two statuses of a connection.

\* C34 as stated: in no reachable state are both directions suspended on
\* each other: the inbound status and the outbound status are never
\* DATA_OTHER at the same time.
C34_NeverBothSuspended ==
  ~(connp.in_status = "DATA_OTHER" /\ connp.out_status = "DATA_OTHER")

\* C35 as stated: a direction whose state is not its IDLE state has an
\* active transaction, so that the sanity checks for a missing inbound or
\* outbound transaction at the head of the data calls never fire.
C35_ActiveTransactionOutsideIdle ==
  /\ connp.in_state # "IDLE" => connp.in_tx # 0
  /\ connp.out_state # "RES_IDLE" => connp.out_tx # 0

\* ---------------------------------------------------------------------
\* The transaction a response is attached to.

\* The runs of the response_start hook, in order: one per response started,
\* each with the transaction the response was attached to.
ResponsesStarted ==
  SelectSeq(connp.hooks.response, LAMBDA h : h[1] = "response_start")

\* C36: the n-th response started on a connection is attached to the n-th
\* transaction of the connection (index n-1): out_next_tx_index counts the
\* responses started and never exceeds the number of transactions, also
\* when the transaction was made up for a response without a request.
C36_ResponsesInTransactionOrder ==
  /\ connp.out_next_tx_index = Len(ResponsesStarted)
  /\ connp.out_next_tx_index <= Len(connp.txs)
  /\ \A n \in 1..Len(ResponsesStarted) : ResponsesStarted[n][2] = n
  /\ connp.out_tx # 0 => connp.out_tx = connp.out_next_tx_index

\* Two responses have started on a connection that was given no inbound
\* byte: both were attached to transactions made up for them.
C36_Witness ==
  /\ inPos = 0
  /\ Len(ResponsesStarted) = 2
  /\ Len(connp.txs) = 2
  /\ connp.out_tx = 2

\* ---------------------------------------------------------------------
\* Data calls with no bytes.

\* The call of this step was given a chunk of no bytes on a direction that
\* was not closed.
ZeroLengthInboundCall ==
  op' = "req_data" /\ InChunkLen = 0 /\ connp.in_status # "CLOSED"
ZeroLengthOutboundCall ==
  op' = "res_data" /\ OutChunkLen = 0 /\ connp.out_status # "CLOSED"

\* C37 as stated: a data call with no bytes on a stream that is not closed
\* is a no-op on the parser: statuses, states, buffers, counters and
\* transactions are after the call what they were before it.
C37_ZeroLengthCallIsNoOp ==
  [][(ZeroLengthInboundCall \/ ZeroLengthOutboundCall) => connp' = connp]_vars

\* ---------------------------------------------------------------------
\* Interim responses.

\* The number of times the call of this step ran RES_BODY_DETERMINE for
\* transaction tx.
DeterminedInCall(tx) ==
  Cardinality({i \in 1..Len(trace') : trace'[i] = <<"RES_BODY_DETERMINE", tx>>})

\* The interim responses transaction tx had accepted before this step.
SeenBefore(tx) == IF tx \in 1..Len(connp.txs) THEN connp.txs[tx].seen_100continue ELSE 0

\* The outbound call of this step read the headers of a 100 response with
\* neither Content-Length nor Transfer-Encoding for a transaction that had
\* accepted a 100 response already, in an earlier call or earlier in this
\* one.
SecondInterimResponse(tx) ==
  /\ op' = "res_data"
  /\ connp'.txs[tx].response_status_number = 100
  /\ HeaderIdx(connp'.txs[tx].response_headers, ContentLengthName) = 0
  /\ HeaderIdx(connp'.txs[tx].response_headers, TransferEncodingName) = 0
  /\ DeterminedInCall(tx) >= 1
  /\ SeenBefore(tx) + DeterminedInCall(tx) >= 2

\* C38: at most one interim 100 response is accepted per transaction, and
\* the outbound data call that reads a second 100 response with neither
\* Content-Length nor Transfer-Encoding returns ERROR.
C38_SecondInterimIsError ==
  [][\A tx \in 1..Len(connp'.txs) :
       /\ connp'.txs[tx].seen_100continue <= 1
       /\ SecondInterimResponse(tx) => ret' = "ERROR" /\ connp'.out_status = "ERROR"]_vars

\* An outbound call has failed on the second 100 response of a transaction.
C38_Witness ==
  /\ op = "res_data"
  /\ ret = "ERROR"
  /\ connp.out_tx # 0
  /\ connp.out_state = "RES_BODY_DETERMINE"
  /\ connp.txs[connp.out_tx].response_status_number = 100
  /\ connp.txs[connp.out_tx].seen_100continue = 1

\* ---------------------------------------------------------------------
\* 101 Switching Protocols.

\* The outbound call of this step read the headers of a 101 response with
\* neither Content-Length nor Transfer-Encoding for transaction tx.
SwitchingProtocols(tx) ==
  /\ op' = "res_data"
  /\ DeterminedInCall(tx) >= 1
  /\ connp'.txs[tx].response_status_number = 101
  /\ HeaderIdx(connp'.txs[tx].response_headers, ContentLengthName) = 0
  /\ HeaderIdx(connp'.txs[tx].response_headers, TransferEncodingName) = 0

\* C39: the outbound call that reads the headers of a 101 response with
\* neither Content-Length nor Transfer-Encoding returns TUNNEL with both
\* directions in TUNNEL status, whatever the inbound machine was doing, and
\* no inbound data call on the tunnel runs a state of the inbound machine:
\* the bytes that follow are not probed.
C39_SwitchingProtocolsTunnels ==
  [][/\ \A tx \in 1..Len(connp'.txs) :
          SwitchingProtocols(tx) =>
            /\ ret' = "TUNNEL"
            /\ connp'.in_status = "TUNNEL" /\ connp'.out_status = "TUNNEL"
            /\ connp'.in_state # "CONNECT_PROBE_DATA"
     /\ (op' = "req_data" /\ connp.in_status = "TUNNEL") =>
          /\ trace' = << >>
          /\ connp'.in_state = connp.in_state
          /\ connp'.txs = connp.txs]_vars

\* A 101 response was read while the inbound machine was in the middle of a
\* request line, and an inbound call on the tunnel has returned since.
C39_Witness ==
  /\ op = "req_data"
  /\ ret = "TUNNEL"
  /\ connp.in_state = "LINE"
  /\ connp.in_status = "TUNNEL" /\ connp.out_status = "TUNNEL"
  /\ \E tx \in 1..Len(connp.txs) : connp.txs[tx].response_status_number = 101

\* ---------------------------------------------------------------------
\* One call of a stage's write, step by step (decompressors.rs).
\*
\* The chain is one stage and the callback. A decoder holds the bytes it
\* has decoded until it can put them into the stage's buffer, the cursor
\* of ENCODING_CHUNK_SIZE bytes that the stage hands to the next stage on a
\* flush; it answers WriteZero when the buffer cannot take all it holds.
\* In this part decompressor is the chain, op is where the call stands
\* (idle, write, flush_writer), ret is what the last call returned, trace
\* is the decoder while it is taken out of its slot, unconsumed is the
\* number of tokens the decoder holds, and overcount is 1 once the call has
\* flushed.

\* The tokens the buffer of a stage takes (for ENCODING_CHUNK_SIZE bytes).
CursorCap == 2

\* The most tokens a decoder holds after it has decoded the data of a call.
MaxHeld == 3

\* A token decoded by the decoder w of stage 1.
Token(w) == Decoded(1, w.alg, Chunk)[1]

\* The room left in the buffer of decoder w, and the decoder after it has
\* put n of the tokens it holds there.
Room(w) == CursorCap - Len(w.buf)
Filled(w, n) == [w EXCEPT !.buf = @ \o [k \in 1..n |-> Token(w)]]

\* Where a step leaves the call: the chain, the decoder taken out (or
\* NoWriter), the tokens the decoder holds, the next step and the result.
WS(d, w, held, pc, rc) == [d |-> d, w |-> w, held |-> held, pc |-> pc, rc |-> rc]

\* The end of the call with the result r of a write further down.
WriteReturned(r) == WS(r.d, NoWriter, 0, "idle", r.rc)

\* InnerDecompressor::write from its entry to its return or to the call of
\* itself. held is what the decoder holds; answer is what the decoder
\* answers when the buffer has room for that (ok, zero or error) and out
\* the number of tokens it decodes from the data.
write_step(d, held, answer, out) ==
  IF d.st[1].passthrough
  THEN IF d.st[1].inner THEN WriteReturned(inner_write(d, 2, Chunk))
       ELSE WS(d, NoWriter, held, "idle", "OK")
  ELSE IF d.st[1].writer # NoWriter
  THEN With(d.st[1].writer, LAMBDA w :
       With([d EXCEPT !.st[1].writer = NoWriter], LAMBDA d0 :
         IF held > Room(w)
         THEN WS(d0, Filled(w, Room(w)), held - Room(w), "flush_writer", "NONE")
         ELSE IF answer = "ok"
         THEN WS([d0 EXCEPT !.st[1].writer = Filled(w, held)], NoWriter, out, "idle", "OK")
         ELSE IF answer = "zero"
         THEN WS([d0 EXCEPT !.st[1].writer = Filled(w, held)], NoWriter, 0, "idle", "OK")
         ELSE With(restart(d0, 1), LAMBDA r :
                IF r.rc # "OK" THEN WriteReturned(try_passthrough(r.d, 1, Chunk))
                ELSE WS(r.d, NoWriter, 0, "write", "NONE"))))
  ELSE WS(d, NoWriter, held, "idle", "ERROR")

\* One turn of the loop of flush_writer that leaves the buffer as it is.
flush_step_buffer_kept(d, w, held, answer) ==
  IF ~d.st[1].inner THEN WS(d, NoWriter, 0, "idle", "ERROR")
  ELSE
  With(Filled(w, IF held > Room(w) THEN Room(w) ELSE held), LAMBDA w1 :
  With(IF w1.buf = << >> THEN RD(d, "OK") ELSE inner_write(d, 2, w1.buf), LAMBDA x :
    IF x.rc # "OK"
    THEN WS([x.d EXCEPT !.st[1].inner = FALSE, !.delivered = << >>], NoWriter, 0, "idle",
            "ERROR")
    ELSE IF held > Room(w)
    THEN WS([x.d EXCEPT !.delivered = << >>], w1, held - Room(w), "flush_writer", "NONE")
    ELSE IF answer = "error"
    THEN With(restart([x.d EXCEPT !.delivered = << >>], 1), LAMBDA r :
           IF r.rc # "OK"
           THEN WS([r.d EXCEPT !.st[1].inner = FALSE], NoWriter, 0, "idle", "ERROR")
           ELSE WS([r.d EXCEPT !.st[1].writer = w1], NoWriter, 0, "write", "NONE"))
    ELSE WS([x.d EXCEPT !.st[1].writer = w1, !.delivered = << >>], NoWriter, 0, "write",
            "NONE")))

\* One turn of the loop of InnerDecompressor::flush_writer, called by write
\* after a WriteZero with the decoder w taken out: the decoder is flushed,
\* which is WriteZero again when the buffer cannot take all it holds; the
\* buffer is written to the next stage and emptied (set_position(0)); the
\* loop goes on after a WriteZero and ends otherwise, with a restart after
\* another error. When the loop has ended write puts w back and calls
\* itself. A failure further down or a refused restart ends the call, and
\* the next stage, taken out for the loop, is lost. What the callback was
\* given is not kept.
flush_step(d, w, held, answer) ==
  IF ~d.st[1].inner THEN WS(d, NoWriter, 0, "idle", "ERROR")
  ELSE
  With(Filled(w, IF held > Room(w) THEN Room(w) ELSE held), LAMBDA w1 :
  With(IF w1.buf = << >> THEN RD(d, "OK") ELSE inner_write(d, 2, w1.buf), LAMBDA x :
    IF x.rc # "OK"
    THEN WS([x.d EXCEPT !.st[1].inner = FALSE, !.delivered = << >>], NoWriter, 0, "idle",
            "ERROR")
    ELSE IF held > Room(w)
    THEN WS([x.d EXCEPT !.delivered = << >>], [w1 EXCEPT !.buf = << >>], held - Room(w),
            "flush_writer", "NONE")
    ELSE IF answer = "error"
    THEN With(restart([x.d EXCEPT !.delivered = << >>], 1), LAMBDA r :
           IF r.rc # "OK"
           THEN WS([r.d EXCEPT !.st[1].inner = FALSE], NoWriter, 0, "idle", "ERROR")
           ELSE WS([r.d EXCEPT !.st[1].writer = [w1 EXCEPT !.buf = << >>]], NoWriter, 0,
                   "write", "NONE"))
    ELSE WS([x.d EXCEPT !.st[1].writer = [w1 EXCEPT !.buf = << >>], !.delivered = << >>],
            NoWriter, 0, "write", "NONE")))

WriteInit ==
  /\ connp = NewConnp
  /\ scn = 1
  /\ inPos = 0
  /\ outPos = 0
  /\ closed = FALSE
  /\ op = "idle"
  /\ ret = "NONE"
  /\ trace = NoWriter
  /\ unconsumed = 0
  /\ overcount = 0
  /\ failed = {}
  /\ decompressor \in {new_with_callback(e, options) : e \in Encodings, options \in OptionSets}

\* The state after a step that left the call as s.
Stepped(s) ==
  /\ decompressor' = IF s.pc = "idle" THEN [s.d EXCEPT !.o = NoOutcomes] ELSE s.d
  /\ trace' = s.w
  /\ unconsumed' = s.held
  /\ op' = s.pc
  /\ ret' = s.rc

\* The caller writes a chunk to the stage; the callback takes what it is
\* given during the call or fails once.
CallWrite ==
  /\ op = "idle"
  /\ \E o \in [write : {<< >>}, flush : {<< >>}, callback : SeqsUpTo({"error"}, 1)] :
       decompressor' = Called(decompressor, Chunk, o)
  /\ op' = "write"
  /\ ret' = "NONE"
  /\ overcount' = 0
  /\ UNCHANGED <<connp, scn, inPos, outPos, closed, trace, unconsumed, failed>>

\* write runs, with whatever the decoder answers.
WriteStep ==
  /\ op = "write"
  /\ \E answer \in {"ok", "zero", "error"}, out \in 0..MaxHeld :
       Stepped(write_step(decompressor, unconsumed, answer, out))
  /\ UNCHANGED <<connp, scn, inPos, outPos, closed, overcount, failed>>

\* The loop of flush_writer takes a turn.
FlushStep ==
  /\ op = "flush_writer"
  /\ \E answer \in {"ok", "error"} :
       Stepped(flush_step(decompressor, trace, unconsumed, answer))
  /\ overcount' = 1
  /\ UNCHANGED <<connp, scn, inPos, outPos, closed, failed>>

WriteNext == CallWrite \/ WriteStep \/ FlushStep

\* A call that has begun goes on: the steps of write are taken as long as
\* there are any.
WriteSpec ==
  WriteInit /\ [][WriteNext]_vars /\ WF_vars(WriteStep) /\ WF_vars(FlushStep)

\* C40: every call of a stage's write returns: the turns of the loop of
\* flush_writer and the calls of write by itself after a full buffer or
\* after a decoder error come to an end, whatever the data, the decoder
\* and the callback answer.
C40_WriteTerminates == (op # "idle") ~> (op = "idle")

\* A call of write has returned OK after the decoder found the buffer full
\* and was flushed, on a stage that has been restarted and still decodes.
C40_Witness ==
  /\ op = "idle"
  /\ ret = "OK"
  /\ overcount = 1
  /\ decompressor.st # << >>
  /\ decompressor.st[1].restarts >= 1
  /\ ~decompressor.st[1].passthrough

====
